---- MODULE Spec2Model ----
(***************************************************************************)
(* Model of baremetal/conductor/switch/huawei_ssh.py: the HuaweiSwitch     *)
(* session gateway (PoolLock + _get_connection), the tenacity retry loops  *)
(* for connect and save, the command pipeline with _check_output, and the  *)
(* three locked operations my_send_config_set, my_send_command and save;   *)
(* the command generators of set_vlan and unset_vlan, get_relations with   *)
(* its parsing loop, and the SwitchPlugin handlers' HuaweiSwitch context.  *)
(*                                                                         *)
(* Text is modelled as a sequence of one-character strings, a command      *)
(* batch as a sequence of command strings, time in seconds.                *)
(***************************************************************************)
EXTENDS Integers, Sequences, FiniteSets, TLC

\* ------------------------------------------------------------------ bounds
\* CONF.sw_coordination.max_connections: the configured pool size N.
MaxConnections == 2
\* Longest command batch whose answers are sampled in full.
MaxBatch == 2
\* Number of text chunks a sampled CLI response is built from.
MaxChunks == 3
\* Largest number of scripted retryable connect failures before success.
MaxFails == 3
\* Duration (s) of one slow device exchange in the single-caller runs.
AttemptDur == 15
\* Duration (s) of one device exchange in the concurrent runs.
LongAttemptDur == 30

\* ------------------------------------------------------------------ text
T_Error == <<"E","r","r","o","r">>
T_error == <<"e","r","r","o","r">>
T_Err == <<"E","r","r">>
T_or == <<"o","r">>
T_Wrong == <<"W","r","o","n","g">>
T_wrong == <<"w","r","o","n","g">>
T_Incomplete == <<"I","n","c","o","m","p","l","e","t","e">>
T_incomplete == <<"i","n","c","o","m","p","l","e","t","e">>
T_Unrecognized == <<"U","n","r","e","c","o","g","n","i","z","e","d">>
T_Unrecogni == <<"U","n","r","e","c","o","g","n","i">>
T_zed == <<"z","e","d">>
T_ok == <<"o","k">>

\* re.compile(r'Error') ... : the four literal patterns, in source order.
ERROR_MSG_PATTERNS == <<T_Error, T_Wrong, T_Incomplete, T_Unrecognized>>

\* pattern.search(output) for a literal pattern: is there a match at or
\* after position i.
search_from(pat, s, i) ==
    \E j \in i..(Len(s) - Len(pat) + 1) : SubSeq(s, j, j + Len(pat) - 1) = pat

\* A case-folding scan (re.IGNORECASE), used to vary pattern_search.
Fold(c) == CASE c = "e" -> "E" [] c = "w" -> "W" [] c = "i" -> "I"
             [] c = "u" -> "U" [] OTHER -> c
FoldSeq(s) == [i \in 1..Len(s) |-> Fold(s[i])]
pattern_search_ignorecase(pat, s) == search_from(FoldSeq(pat), FoldSeq(s), 1)

pattern_search(pat, s) == search_from(pat, s, 1)

\* ------------------------------------------------------------ exceptions
DeviceIp == "10.0.0.1"
NoExc == [kind |-> "none", command |-> <<>>, error |-> <<>>, ip |-> "", cause |-> ""]
Exc(k) == [kind |-> k, command |-> <<>>, error |-> <<>>, ip |-> "", cause |-> ""]
ConfigSwitchError(command, error) ==
    [kind |-> "ConfigSwitchError", command |-> command, error |-> error,
     ip |-> "", cause |-> ""]
SwitchConnectionError(ip, error) ==
    [kind |-> "SwitchConnectionError", command |-> <<>>, error |-> <<>>,
     ip |-> ip, cause |-> error]

\* Python values an operation returns: None or a text.
None == [none |-> TRUE, text |-> <<>>]
Str(s) == [none |-> FALSE, text |-> s]

\* HuaweiSwitch._check_output: None on a falsy output, ConfigSwitchError on
\* the first pattern found, the output itself otherwise.
RECURSIVE check_patterns(_, _, _)
check_patterns(output, commands, k) ==
    IF k > Len(ERROR_MSG_PATTERNS) THEN [exc |-> NoExc, value |-> Str(output)]
    ELSE IF pattern_search(ERROR_MSG_PATTERNS[k], output)
         THEN [exc |-> ConfigSwitchError(commands, output), value |-> None]
         ELSE check_patterns(output, commands, k + 1)

_check_output(output, commands) ==
    IF output = <<>> THEN [exc |-> NoExc, value |-> None]
    ELSE check_patterns(output, commands, 1)

\* ----------------------------------------------------------- configuration
\* HuaweiSwitch.__init__: the internal switch configuration.
sw_internal_cfg ==
    [sw_ssh_connect_timeout |-> 60,
     sw_ssh_connect_interval |-> 10,
     sw_max_connections |-> MaxConnections]

\* A pool one slot larger than configured, used to vary lock_kwargs.
lock_kwargs_one_more ==
    [locks_pool_size |-> sw_internal_cfg.sw_max_connections + 1,
     locks_prefix |-> DeviceIp]

\* HuaweiSwitch.__init__: the arguments every PoolLock is built with.
lock_kwargs ==
    [locks_pool_size |-> sw_internal_cfg.sw_max_connections,
     locks_prefix |-> DeviceIp]

\* _get_connection: the exception types the connect policy retries on.
retry_exc_types == {"SSHException", "EOFError", "IndexError"}

\* tenacity.stop_after_delay with > in place of >=, used to vary it.
stop_after_delay_strict(seconds_since_start, max_delay) ==
    seconds_since_start > max_delay

\* tenacity.stop_after_delay(max_delay), as evaluated after a failed attempt.
stop_after_delay(seconds_since_start, max_delay) ==
    seconds_since_start >= max_delay

\* A wait of half the configured interval, used to vary wait_fixed.
wait_fixed_halved(attempt) == sw_internal_cfg.sw_ssh_connect_interval \div 2

\* A wait growing with the attempt number, used to vary wait_fixed.
wait_growing(attempt) == attempt * sw_internal_cfg.sw_ssh_connect_interval

\* tenacity.wait_fixed(sw_ssh_connect_interval).
wait_fixed(attempt) == sw_internal_cfg.sw_ssh_connect_interval

\* save_configuration: retry_kwargs.
save_retry_kwargs == [wait_min |-> 2, wait_max |-> 6, reraise |-> FALSE, stop |-> 30]

\* ------------------------------------------------------------------ state
Procs == {"p1", "p2"}
Commands == {"display mac-address", "interface GE1", "commit"}
\* A transport plan: `fails` attempts raise a retryable error, every later
\* attempt does `then`: "ok" (a session), "fatal" (an error outside the
\* retryable set) or "retryable" (the transport never comes up).
AlwaysFails == [fails |-> 0, then |-> "retryable"]

VARIABLES
    backend_url,     \* CONF.sw_coordination.backend_url is set
    env,             \* the run's environment: callers, durations, transport plans
    pc,              \* each caller's position in its operation
    op,              \* the operation a caller invoked
    payload,         \* its cmd_set / command (a command is a batch of one)
    slot,            \* the pool slot a caller's PoolLock holds, 0 for none
    foreign,         \* the pool slots held by other processes of the fleet
    net_connect,     \* the device line of a caller's live CLI session, 0 for none
    plan,            \* what the transport does to this caller's connect attempts
    attempt_number,  \* tenacity: attempts made in the current retry loop
    elapsed,         \* tenacity: seconds since the current retry loop started
    exc,             \* the exception in flight inside the operation
    retval,          \* the value the operation is about to return
    result,          \* what the immediate caller received
    connects,        \* history: netmiko.ConnectHandler calls
    logged,          \* history: after_log calls of the connect policy
    slept,           \* history: seconds slept between connect attempts
    fail_at,         \* history: seconds_since_start at the last failed connect
    sent,            \* history: commands written to the device
    answers,         \* history: the device's response to each command sent
    saves,           \* history: save exchanges with the device
    mode,            \* history: the mode step taken before the send
    calls,           \* history: the netmiko calls made on the session, in order
    events,          \* history: acquire / open / close / release, in order
    co_output,       \* _check_output study: the response text
    co_result,       \* _check_output study: what the call did
    co_done,         \* _check_output study: the call was made
    locker,          \* self.locker of each HuaweiSwitch: none, started, stopped
    coord,           \* history: start / stop of the coordination client
    req,             \* the boundary operation each handler is running
    gr,              \* get_relations: its loop position and what it collected
    vlans,           \* gen_vlan_string study: the VLAN items
    vlan_string,     \* gen_vlan_string study: the string returned
    gvs_done,        \* gen_vlan_string study: the call was made
    line,            \* relation parsing study: one data line
    relation,        \* relation parsing study: the relation appended
    line_done,       \* relation parsing study: the line was parsed
    call,            \* command batch study: the generator called, its arguments
    batch            \* command batch study: what the generator did

envVars == <<backend_url, env>>
lockVars == <<slot, foreign>>
sessVars == <<net_connect>>
retryVars == <<plan, attempt_number, elapsed>>
connHist == <<connects, logged, slept, fail_at>>
bodyHist == <<sent, answers, saves, mode, calls>>
coVars == <<co_output, co_result, co_done>>
ctxVars == <<locker, coord, req, gr>>
studyVars == <<vlans, vlan_string, gvs_done, line, relation, line_done, call, batch>>
vars == <<backend_url, env, pc, op, payload, slot, foreign, net_connect,
          plan, attempt_number, elapsed, exc, retval, result, connects, logged,
          slept, fail_at, sent, answers, saves, mode, calls, events,
          co_output, co_result, co_done, locker, coord, req, gr,
          vlans, vlan_string, gvs_done, line, relation, line_done, call, batch>>

\* All batches of at most n commands.
RECURSIVE Batches(_)
Batches(n) ==
    IF n = 0 THEN {<<>>}
    ELSE LET B == Batches(n - 1)
         IN  B \cup {Append(b, c) : b \in {x \in B : Len(x) = n - 1}, c \in Commands}

\* The text made of the given chunks, in order.
RECURSIVE Concat(_)
Concat(ss) == IF ss = <<>> THEN <<>> ELSE Head(ss) \o Concat(Tail(ss))

NoResult == [exc |-> NoExc, value |-> None]

\* An __init__ that starts a coordinator whatever the configuration.
get_coordinator_always(url) == "started"

\* self.locker after __init__: a started coordinator when a backend is
\* configured, None otherwise.
get_coordinator(url) == IF url THEN "started" ELSE "none"

NoRequest == [name |-> "none", ports |-> <<>>, special_mac |-> <<>>, special_vlan |-> <<>>]
NoRelations == [i |-> 0, calling |-> FALSE, relations |-> <<>>, parsed |-> <<>>,
                displayed |-> <<>>, opened |-> 0, acquired |-> 0]
NoRelation == [mac |-> <<>>, port |-> <<>>]
NoSwitch == [ports |-> <<>>, vlan_ids |-> <<>>]
NoCall == [method |-> "none", ports |-> <<>>, port_names |-> <<>>,
           inbound_ports |-> <<>>, outbound_ports |-> <<>>, limit_infos |-> <<>>,
           templates |-> <<>>, template_names |-> <<>>, switch |-> NoSwitch,
           template_name |-> None, is_dhclient |-> FALSE]
NoBatch == [done |-> FALSE, raised |-> "", returned |-> "", commands |-> <<>>]

\* No pure-function study is under way.
InitStudy ==
    /\ co_output = <<>> /\ co_result = NoResult /\ co_done = FALSE
    /\ vlans = <<>> /\ vlan_string = <<>> /\ gvs_done = FALSE
    /\ line = <<>> /\ relation = NoRelation /\ line_done = FALSE
    /\ call = NoCall /\ batch = NoBatch

\* Every field of a caller before it starts an operation.
InitFields ==
    /\ req = [p \in Procs |-> NoRequest]
    /\ gr = [p \in Procs |-> NoRelations]
    /\ op = [p \in Procs |-> "none"]
    /\ payload = [p \in Procs |-> <<>>]
    /\ slot = [p \in Procs |-> 0]
    /\ foreign = {}
    /\ net_connect = [p \in Procs |-> 0]
    /\ plan = [p \in Procs |-> [fails |-> 0, then |-> "ok"]]
    /\ attempt_number = [p \in Procs |-> 0]
    /\ elapsed = [p \in Procs |-> 0]
    /\ exc = [p \in Procs |-> NoExc]
    /\ retval = [p \in Procs |-> None]
    /\ result = [p \in Procs |-> NoResult]
    /\ connects = [p \in Procs |-> 0]
    /\ logged = [p \in Procs |-> 0]
    /\ slept = [p \in Procs |-> 0]
    /\ fail_at = [p \in Procs |-> 0]
    /\ sent = [p \in Procs |-> <<>>]
    /\ answers = [p \in Procs |-> <<>>]
    /\ saves = [p \in Procs |-> 0]
    /\ mode = [p \in Procs |-> "none"]
    /\ calls = [p \in Procs |-> <<>>]
    /\ events = [p \in Procs |-> <<>>]

\* Every caller holds a constructed HuaweiSwitch and has called nothing yet.
InitProcs ==
    /\ pc = [p \in Procs |-> "idle"]
    /\ locker = [p \in Procs |-> get_coordinator(backend_url)]
    /\ coord = [p \in Procs |-> IF backend_url THEN <<"start">> ELSE <<>>]
    /\ InitFields

\* Concurrent callers of one device; every device exchange is slow.
ConcurrentEnv ==
    [callers |-> Procs,
     durs |-> {LongAttemptDur},
     save_durs |-> {LongAttemptDur},
     plans |-> {[fails |-> 0, then |-> "ok"], [fails |-> 1, then |-> "ok"],
                AlwaysFails, [fails |-> 0, then |-> "fatal"]},
     errors |-> {"SSHException"},
     batches |-> {<<>>, <<"interface GE1", "commit">>},
     commands |-> {<<>>, <<"display mac-address">>},
     responses |-> {T_ok, T_Error}]

\* One caller; exchanges are instant or slow, every transport plan occurs.
SingleEnv ==
    [callers |-> {"p1"},
     durs |-> {0, AttemptDur},
     save_durs |-> {AttemptDur},
     plans |-> {[fails |-> n, then |-> t] : n \in 0..MaxFails, t \in {"ok", "fatal"}}
                \cup {AlwaysFails},
     errors |-> retry_exc_types,
     batches |-> Batches(MaxBatch),
     commands |-> {<<>>} \cup {<<c>> : c \in Commands},
     responses |-> {<<>>, T_ok, T_error, T_Wrong}]

\* One caller, every transport plan and timing, one batch and one answer
\* of each kind.
LiveEnv ==
    [SingleEnv EXCEPT !.errors = {"SSHException"},
                      !.batches = {<<>>, <<"interface GE1", "commit">>},
                      !.commands = {<<>>, <<"display mac-address">>, <<"commit">>},
                      !.responses = {T_ok, T_Error}]

Init ==
    /\ backend_url \in BOOLEAN
    /\ env = ConcurrentEnv
    /\ InitProcs
    /\ InitStudy

InitSingle ==
    /\ backend_url \in BOOLEAN
    /\ env = SingleEnv
    /\ InitProcs
    /\ InitStudy

InitLive ==
    /\ backend_url \in BOOLEAN
    /\ env = LiveEnv
    /\ InitProcs
    /\ InitStudy

\* ------------------------------------------------------------- PoolLock
\* The slots of this device's pool that some PoolLock holds, here or in
\* any other process sharing the coordination backend.
HeldSlots == ({slot[q] : q \in Procs} \ {0}) \cup foreign
FreeSlots == (1..lock_kwargs.locks_pool_size) \ HeldSlots

\* What the immediate caller receives when exception e leaves operation o.
\* my_send_command logs e in its except clause and then runs a bare raise
\* outside the clause: the exception of the frame under Python 2, a
\* RuntimeError (no active exception to re-raise) under Python 3.
CallerReceives(o, e) ==
    IF o = "my_send_command" THEN {e, Exc("RuntimeError")} ELSE {e}

\* The operation ends: the caller gets the value or one of the exceptions.
Finish(p, e, v) ==
    /\ pc' = [pc EXCEPT ![p] = "done"]
    /\ \E r \in (IF e = NoExc THEN {NoExc} ELSE CallerReceives(op[p], e)) :
          result' = [result EXCEPT ![p] = [exc |-> r, value |-> IF e = NoExc THEN v ELSE None]]

\* ----------------------------------------------------------- operations
\* my_send_config_set(cmd_set): entry; an empty batch returns None at once.
my_send_config_set(p) ==
    /\ p \in env.callers /\ pc[p] = "idle"
    /\ \E cmd_set \in env.batches :
          /\ op' = [op EXCEPT ![p] = "my_send_config_set"]
          /\ payload' = [payload EXCEPT ![p] = cmd_set]
          /\ IF cmd_set = <<>>
             THEN /\ pc' = [pc EXCEPT ![p] = "done"]
                  /\ result' = [result EXCEPT ![p] = [exc |-> NoExc, value |-> None]]
             ELSE /\ pc' = [pc EXCEPT ![p] = "acquire"]
                  /\ UNCHANGED result
    /\ UNCHANGED <<envVars, lockVars, sessVars, retryVars, exc, retval, connHist,
                   bodyHist, events, coVars, ctxVars, studyVars>>

\* my_send_command(command): entry; an empty command returns None at once.
my_send_command(p) ==
    /\ p \in env.callers /\ pc[p] = "idle"
    /\ \E command \in env.commands :
          /\ op' = [op EXCEPT ![p] = "my_send_command"]
          /\ payload' = [payload EXCEPT ![p] = command]
          /\ IF command = <<>>
             THEN /\ pc' = [pc EXCEPT ![p] = "done"]
                  /\ result' = [result EXCEPT ![p] = [exc |-> NoExc, value |-> None]]
             ELSE /\ pc' = [pc EXCEPT ![p] = "acquire"]
                  /\ UNCHANGED result
    /\ UNCHANGED <<envVars, lockVars, sessVars, retryVars, exc, retval, connHist,
                   bodyHist, events, coVars, ctxVars, studyVars>>

\* save(): entry.
save(p) ==
    /\ p \in env.callers /\ pc[p] = "idle"
    /\ op' = [op EXCEPT ![p] = "save"]
    /\ pc' = [pc EXCEPT ![p] = "acquire"]
    /\ UNCHANGED <<envVars, payload, lockVars, sessVars, retryVars, exc, retval,
                   result, connHist, bodyHist, events, coVars, ctxVars, studyVars>>

\* with sw_lock.PoolLock(self.locker, **self.lock_kwargs): __enter__ takes a
\* free slot of the pool; without a coordinator it takes nothing.  The
\* transport's plan for the connect attempts that follow is drawn here.
PoolLock_enter(p) ==
    /\ pc[p] = "acquire"
    /\ IF locker[p] # "none"
       THEN \E s \in FreeSlots :
               /\ slot' = [slot EXCEPT ![p] = s]
               /\ events' = [events EXCEPT ![p] = Append(@, "acquire")]
       ELSE UNCHANGED <<slot, events>>
    /\ UNCHANGED foreign
    /\ \E pl \in env.plans : plan' = [plan EXCEPT ![p] = pl]
    /\ attempt_number' = [attempt_number EXCEPT ![p] = 0]
    /\ elapsed' = [elapsed EXCEPT ![p] = 0]
    /\ pc' = [pc EXCEPT ![p] = "connect"]
    /\ UNCHANGED <<envVars, op, payload, sessVars, exc, retval, result, connHist,
                   bodyHist, coVars, ctxVars, studyVars>>

\* PoolLock.__enter__ gives up: every slot stayed held for acquire_timeout.
\* The exception leaves the operation through its except clause.
PoolLock_timeout(p) ==
    /\ pc[p] = "acquire"
    /\ backend_url
    /\ FreeSlots = {}
    /\ exc' = [exc EXCEPT ![p] = Exc("LockTimeout")]
    /\ events' = [events EXCEPT ![p] = Append(@, "lock_timeout")]
    /\ Finish(p, Exc("LockTimeout"), None)
    /\ UNCHANGED <<envVars, op, payload, lockVars, sessVars, retryVars, retval,
                   connHist, bodyHist, coVars, ctxVars, studyVars>>

\* ------------------------------------------------------ _get_connection
\* What the transport does to the next connect attempt of p.
AttemptOutcome(p) ==
    IF attempt_number[p] < plan[p].fails THEN "retryable" ELSE plan[p].then

\* _create_connection under the connect policy, one attempt that raises a
\* retryable error k after d seconds: after_log, then stop_after_delay on
\* the seconds since the first attempt, then either the last exception is
\* re-raised (reraise=True) and wrapped in SwitchConnectionError, or the
\* loop sleeps wait_fixed and tries again.
RetryStep(p, d, k) ==
    LET n == attempt_number[p] + 1
        t == elapsed[p] + d
    IN  /\ attempt_number' = [attempt_number EXCEPT ![p] = n]
        /\ connects' = [connects EXCEPT ![p] = @ + 1]
        /\ logged' = [logged EXCEPT ![p] = @ + 1]
        /\ fail_at' = [fail_at EXCEPT ![p] = t]
        /\ IF stop_after_delay(t, sw_internal_cfg.sw_ssh_connect_timeout)
           THEN /\ exc' = [exc EXCEPT ![p] = SwitchConnectionError(DeviceIp, k)]
                /\ elapsed' = [elapsed EXCEPT ![p] = t]
                /\ pc' = [pc EXCEPT ![p] = "release"]
                /\ UNCHANGED slept
           ELSE /\ elapsed' = [elapsed EXCEPT ![p] = t + wait_fixed(n)]
                /\ slept' = [slept EXCEPT ![p] = @ + wait_fixed(n)]
                /\ UNCHANGED <<exc, pc>>

\* A retry that gives the pool slot back while it sleeps.
ConnectRetryable_drops_slot(p) ==
    /\ pc[p] = "connect"
    /\ AttemptOutcome(p) = "retryable"
    /\ \E d \in env.durs, k \in env.errors : RetryStep(p, d, k)
    /\ slot' = [slot EXCEPT ![p] = 0]
    /\ UNCHANGED <<envVars, op, payload, foreign, sessVars, plan, retval, result,
                   bodyHist, events, coVars, ctxVars, studyVars>>

\* _get_connection: a connect attempt raises a retryable error.  The
\* enclosing PoolLock stays entered throughout.
ConnectRetryable(p) ==
    /\ pc[p] = "connect"
    /\ AttemptOutcome(p) = "retryable"
    /\ \E d \in env.durs, k \in env.errors : RetryStep(p, d, k)
    /\ UNCHANGED <<envVars, op, payload, lockVars, sessVars, plan, retval, result,
                   bodyHist, events, coVars, ctxVars, studyVars>>

\* An error outside the retryable set that the connect policy retries on
\* all the same.
ConnectFatal_retried(p) ==
    /\ pc[p] = "connect"
    /\ AttemptOutcome(p) = "fatal"
    /\ \E d \in env.durs : RetryStep(p, d, "socket.error")
    /\ UNCHANGED <<envVars, op, payload, lockVars, sessVars, plan, retval, result,
                   bodyHist, events, coVars, ctxVars, studyVars>>

\* _get_connection: a connect attempt raises an error outside the retryable
\* set: no after_log, no retry, wrapped in SwitchConnectionError.
ConnectFatal(p) ==
    /\ pc[p] = "connect"
    /\ AttemptOutcome(p) = "fatal"
    /\ \E d \in env.durs : elapsed' = [elapsed EXCEPT ![p] = @ + d]
    /\ attempt_number' = [attempt_number EXCEPT ![p] = @ + 1]
    /\ connects' = [connects EXCEPT ![p] = @ + 1]
    /\ exc' = [exc EXCEPT ![p] = SwitchConnectionError(DeviceIp, "socket.error")]
    /\ pc' = [pc EXCEPT ![p] = "release"]
    /\ UNCHANGED <<envVars, op, payload, lockVars, sessVars, plan, retval, result,
                   logged, slept, fail_at, bodyHist, events, coVars, ctxVars, studyVars>>

\* The device gives a new session its lowest free line.
LiveLines == {net_connect[q] : q \in Procs} \ {0}
FreeLine == CHOOSE n \in 1..(Cardinality(Procs) + 1) :
                n \notin LiveLines /\ \A m \in 1..(n - 1) : m \in LiveLines

\* _get_connection: netmiko.ConnectHandler returns; the session is yielded
\* to the with body.  save() goes straight to save_configuration.
ConnectSucceeds(p) ==
    /\ pc[p] = "connect"
    /\ AttemptOutcome(p) = "ok"
    /\ connects' = [connects EXCEPT ![p] = @ + 1]
    /\ net_connect' = [net_connect EXCEPT ![p] = FreeLine]
    /\ events' = [events EXCEPT ![p] = Append(@, "open")]
    /\ attempt_number' = [attempt_number EXCEPT ![p] = 0]
    /\ elapsed' = [elapsed EXCEPT ![p] = 0]
    /\ pc' = [pc EXCEPT ![p] = IF op[p] = "save" THEN "save" ELSE "session"]
    /\ UNCHANGED <<envVars, op, payload, lockVars, plan, exc, retval, result,
                   logged, slept, fail_at, bodyHist, coVars, ctxVars, studyVars>>

\* ---------------------------------------------------- command pipeline
\* The first position of ans holding one of the patterns, 0 if none.
FirstRejected(ans) ==
    LET bad == {i \in 1..Len(ans) :
                  \E k \in 1..Len(ERROR_MSG_PATTERNS) :
                      pattern_search(ERROR_MSG_PATTERNS[k], ans[i])}
    IN  IF bad = {} THEN 0 ELSE CHOOSE i \in bad : \A j \in bad : i <= j

\* A send that stops writing at the first rejected command.
netmiko_send_config_set_stops(config_commands, ans) ==
    LET f == FirstRejected(ans)
        n == IF f = 0 THEN Len(config_commands) ELSE f
    IN  [written |-> SubSeq(config_commands, 1, n),
         output |-> Concat(SubSeq(ans, 1, n))]

\* net_connect.send_config_set(config_commands=cmd_set): netmiko writes
\* every command of the batch in order, whatever the device answers, and
\* returns the collected output of the whole batch.
netmiko_send_config_set(config_commands, ans) ==
    [written |-> config_commands, output |-> Concat(ans)]

\* The command handed to ConfigSwitchError when only the rejected line is named.
rejected_command_arg(cmd_set, ans) ==
    IF FirstRejected(ans) = 0 THEN cmd_set ELSE <<cmd_set[FirstRejected(ans)]>>

\* send_config_set: the `commands` argument of _check_output is cmd_set.
check_output_commands_arg(cmd_set, ans) == cmd_set

\* The device's answers to a batch of n commands: any answers to a short
\* batch; to a longer one, plain acceptance of every command but possibly
\* the first or the last.
Answers(n) ==
    IF n <= MaxBatch THEN [1..n -> env.responses]
    ELSE {[i \in 1..n |-> IF i = k THEN r ELSE T_ok] : k \in {1, n}, r \in env.responses}

\* The numbers of commands written before a session fails during a send:
\* any number for a short batch, none or all but one for a longer one.
WrittenBeforeFailure(n) == IF n <= MaxBatch THEN 0..n ELSE {0, n - 1}

\* HuaweiSwitch.send_config_set inside the two with blocks of
\* my_send_config_set: config_mode, the netmiko send, one _check_output of
\* the whole output; an exception is logged and re-raised.
send_config_set(p) ==
    /\ pc[p] = "session" /\ op[p] = "my_send_config_set"
    /\ \E ans \in Answers(Len(payload[p])) :
          LET io == netmiko_send_config_set(payload[p], ans)
              r == _check_output(io.output, check_output_commands_arg(payload[p], ans))
          IN  /\ mode' = [mode EXCEPT ![p] = "config"]
              /\ calls' = [calls EXCEPT ![p] = <<"config_mode", "send_config_set">>]
              /\ sent' = [sent EXCEPT ![p] = io.written]
              /\ answers' = [answers EXCEPT ![p] = SubSeq(ans, 1, Len(io.written))]
              /\ exc' = [exc EXCEPT ![p] = r.exc]
              /\ retval' = [retval EXCEPT ![p] =
                               IF r.exc = NoExc THEN Str(<<"successful">>) ELSE None]
    /\ pc' = [pc EXCEPT ![p] = "close"]
    /\ UNCHANGED <<envVars, op, payload, lockVars, sessVars, retryVars, result,
                   connHist, saves, events, coVars, ctxVars, studyVars>>

\* The queries of get_relations: "display mac-address %s" % item and
\* "display mac-address vlan %s" % special_vlan.
display_mac_address(item) == "display mac-address " \o item
display_mac_address_vlan(special_vlan) == "display mac-address vlan " \o special_vlan

\* Sampled MAC addresses and VLAN of get_relations requests.
Macs == <<"0011-2233-4455", "a0b1-c2d3-e4f5", "0011-2233-4466">>
Vlan == "100"
DisCommands ==
    {"display mac-address", display_mac_address_vlan(Vlan)}
    \cup {display_mac_address(Macs[k]) : k \in 1..Len(Macs)}

\* command.startswith('dis'), on the sampled commands.
startswith_dis(command) == command \in DisCommands

\* A send_command that enters configuration mode whatever the command.
mode_call_config_always(command) == "config_mode"

\* send_command: the netmiko call made before the send,
\* session_preparation for a command that starts with 'dis', config_mode
\* for any other.
mode_call(command) ==
    IF startswith_dis(command) THEN "session_preparation" ELSE "config_mode"

\* HuaweiSwitch.send_command inside the with blocks of my_send_command:
\* session_preparation or config_mode, the send, _check_output; then
\* my_send_command goes on to save_configuration.
send_command(p) ==
    /\ pc[p] = "session" /\ op[p] = "my_send_command"
    /\ \E ans \in env.responses :
          LET r == _check_output(ans, payload[p])
          IN  /\ mode' = [mode EXCEPT ![p] =
                             IF startswith_dis(payload[p][1]) THEN "raw" ELSE "config"]
              /\ calls' = [calls EXCEPT ![p] =
                              <<mode_call(payload[p][1]), "send_command">>]
              /\ sent' = [sent EXCEPT ![p] = payload[p]]
              /\ answers' = [answers EXCEPT ![p] = <<ans>>]
              /\ exc' = [exc EXCEPT ![p] = r.exc]
              /\ pc' = [pc EXCEPT ![p] = IF r.exc = NoExc THEN "save" ELSE "close"]
    /\ attempt_number' = [attempt_number EXCEPT ![p] = 0]
    /\ elapsed' = [elapsed EXCEPT ![p] = 0]
    /\ UNCHANGED <<envVars, op, payload, lockVars, sessVars, plan, retval, result,
                   connHist, saves, events, coVars, ctxVars, studyVars>>

\* The session itself fails: in the mode step, before anything is written,
\* or during the send after k commands were written; send_config_set /
\* send_command log and re-raise.
send_raises(p) ==
    /\ pc[p] = "session"
    /\ LET m == IF op[p] = "my_send_command" THEN mode_call(payload[p][1])
                ELSE "config_mode"
           s == IF op[p] = "my_send_command" THEN "send_command"
                ELSE "send_config_set"
       IN  \E k \in WrittenBeforeFailure(Len(payload[p])) :
              /\ sent' = [sent EXCEPT ![p] = SubSeq(payload[p], 1, k)]
              /\ \E cs \in (IF k = 0 THEN {<<m>>, <<m, s>>} ELSE {<<m, s>>}) :
                    calls' = [calls EXCEPT ![p] = cs]
    /\ mode' = [mode EXCEPT ![p] =
                   IF op[p] = "my_send_command" /\ startswith_dis(payload[p][1])
                   THEN "raw" ELSE "config"]
    /\ exc' = [exc EXCEPT ![p] = Exc("NetMikoTimeoutException")]
    /\ pc' = [pc EXCEPT ![p] = "close"]
    /\ UNCHANGED <<envVars, op, payload, lockVars, sessVars, retryVars, retval,
                   result, connHist, answers, saves, events, coVars, ctxVars, studyVars>>

\* save_configuration: a failed _save attempt at t seconds.  The policy
\* retries on every exception; once stop_after_delay(30) holds, tenacity
\* raises RetryError (reraise=False).  save() catches it and then reads
\* `output`, which was never bound; my_send_command lets it propagate.
SaveFailed(p, t, last) ==
    IF stop_after_delay(t, save_retry_kwargs.stop)
    THEN /\ exc' = [exc EXCEPT ![p] =
                       IF op[p] = "save" THEN Exc("UnboundLocalError")
                       ELSE [Exc("RetryError") EXCEPT !.cause = last]]
         /\ elapsed' = [elapsed EXCEPT ![p] = t]
         /\ pc' = [pc EXCEPT ![p] = "close"]
    ELSE /\ \E w \in save_retry_kwargs.wait_min..save_retry_kwargs.wait_max :
               elapsed' = [elapsed EXCEPT ![p] = t + w]
         /\ UNCHANGED <<exc, pc>>

\* save_configuration._save: one save exchange that returns output; the
\* output is checked, returned when clean, retried when rejected.
save_configuration(p) ==
    /\ pc[p] = "save"
    /\ saves' = [saves EXCEPT ![p] = @ + 1]
    /\ attempt_number' = [attempt_number EXCEPT ![p] = @ + 1]
    /\ \E d \in env.save_durs, ans \in env.responses :
          IF _check_output(ans, <<"save">>).exc = NoExc
          THEN /\ retval' = [retval EXCEPT ![p] = Str(ans)]
               /\ elapsed' = [elapsed EXCEPT ![p] = @ + d]
               /\ pc' = [pc EXCEPT ![p] = "close"]
               /\ UNCHANGED exc
          ELSE /\ SaveFailed(p, elapsed[p] + d, "ConfigSwitchError")
               /\ UNCHANGED retval
    /\ UNCHANGED <<envVars, op, payload, lockVars, sessVars, plan, result, connHist,
                   sent, answers, mode, calls, events, coVars, ctxVars, studyVars>>

\* save_configuration._save: the save exchange itself raises.
save_raises(p) ==
    /\ pc[p] = "save"
    /\ saves' = [saves EXCEPT ![p] = @ + 1]
    /\ attempt_number' = [attempt_number EXCEPT ![p] = @ + 1]
    /\ \E d \in env.save_durs : SaveFailed(p, elapsed[p] + d, "NetMikoTimeoutException")
    /\ UNCHANGED <<envVars, op, payload, lockVars, sessVars, plan, retval, result,
                   connHist, sent, answers, mode, calls, events, coVars, ctxVars,
                   studyVars>>

\* ------------------------------------------------------------ the exits
\* A close that is skipped when an exception is in flight.
Close_on_success_only(p) ==
    /\ pc[p] = "close"
    /\ IF exc[p] = NoExc
       THEN /\ net_connect' = [net_connect EXCEPT ![p] = 0]
            /\ events' = [events EXCEPT ![p] = Append(@, "close")]
       ELSE UNCHANGED <<net_connect, events>>
    /\ pc' = [pc EXCEPT ![p] = "release"]
    /\ UNCHANGED <<envVars, op, payload, lockVars, retryVars, exc,
                   retval, result, connHist, bodyHist, coVars, ctxVars, studyVars>>

\* `with net_connect:` ends (return or exception): netmiko disconnects.
Close(p) ==
    /\ pc[p] = "close"
    /\ net_connect' = [net_connect EXCEPT ![p] = 0]
    /\ events' = [events EXCEPT ![p] = Append(@, "close")]
    /\ pc' = [pc EXCEPT ![p] = "release"]
    /\ UNCHANGED <<envVars, op, payload, lockVars, retryVars, exc,
                   retval, result, connHist, bodyHist, coVars, ctxVars, studyVars>>

\* A release that happens only when the body raised nothing.
Release_after_success_only(p) ==
    /\ pc[p] = "release"
    /\ exc[p] = NoExc
    /\ slot' = [slot EXCEPT ![p] = 0]
    /\ events' = [events EXCEPT ![p] = IF slot[p] # 0 THEN Append(@, "release") ELSE @]
    /\ Finish(p, exc[p], retval[p])
    /\ UNCHANGED <<envVars, foreign, op, payload, sessVars, retryVars, exc, retval,
                   connHist, bodyHist, coVars, ctxVars, studyVars>>

\* `with sw_lock.PoolLock(...)` ends: the slot, if one is held, is given
\* back; then the operation returns or its except clause runs.
Release(p) ==
    /\ pc[p] = "release"
    /\ slot' = [slot EXCEPT ![p] = 0]
    /\ events' = [events EXCEPT ![p] = IF slot[p] # 0 THEN Append(@, "release") ELSE @]
    /\ Finish(p, exc[p], retval[p])
    /\ UNCHANGED <<envVars, foreign, op, payload, sessVars, retryVars, exc, retval,
                   connHist, bodyHist, coVars, ctxVars, studyVars>>

\* Another process of the fleet enters a PoolLock of this device.
ForeignAcquire ==
    /\ backend_url
    /\ \E s \in FreeSlots : foreign' = foreign \cup {s}
    /\ UNCHANGED <<envVars, pc, op, payload, slot, sessVars, retryVars, exc, retval,
                   result, connHist, bodyHist, events, coVars, ctxVars, studyVars>>

\* Another process of the fleet leaves its PoolLock.
ForeignRelease ==
    /\ \E s \in foreign : foreign' = foreign \ {s}
    /\ UNCHANGED <<envVars, pc, op, payload, slot, sessVars, retryVars, exc, retval,
                   result, connHist, bodyHist, events, coVars, ctxVars, studyVars>>

\* ------------------------------------------------------- specifications
Step(p) ==
    \/ my_send_config_set(p)
    \/ my_send_command(p)
    \/ save(p)
    \/ PoolLock_enter(p)
    \/ PoolLock_timeout(p)
    \/ ConnectRetryable(p)
    \/ ConnectFatal(p)
    \/ ConnectSucceeds(p)
    \/ send_config_set(p)
    \/ send_command(p)
    \/ send_raises(p)
    \/ save_configuration(p)
    \/ save_raises(p)
    \/ Close(p)
    \/ Release(p)

Next ==
    \/ \E p \in Procs : Step(p)
    \/ ForeignAcquire
    \/ ForeignRelease

\* Concurrent callers of one device.
Spec == Init /\ [][Next]_vars

\* One caller, every transport plan and timing.
SpecSingle == InitSingle /\ [][Next]_vars

\* One caller, with every device exchange and every step of a caller's
\* operation returning or raising in finite time: a step that stays possible
\* is eventually taken.
SpecLive == InitLive /\ [][Next]_vars /\ \A p \in Procs : WF_vars(Step(p))

\* ----------------------------------------------- _check_output on texts
Chunks == {T_Error, T_error, T_Err, T_or, T_Wrong, T_wrong, T_Incomplete,
           T_incomplete, T_Unrecognized, T_Unrecogni, T_zed, T_ok}

\* All sequences of at most n chunks.
RECURSIVE ChunkSeqs(_)
ChunkSeqs(n) ==
    IF n = 0 THEN {<<>>}
    ELSE LET S == ChunkSeqs(n - 1)
         IN  S \cup {Append(x, c) : x \in {y \in S : Len(y) = n - 1}, c \in Chunks}

InitCheckOutput ==
    /\ backend_url = FALSE
    /\ env = [SingleEnv EXCEPT !.callers = {}]
    /\ InitProcs
    /\ co_output \in {Concat(cs) : cs \in ChunkSeqs(MaxChunks)}
    /\ co_result = NoResult
    /\ co_done = FALSE
    /\ vlans = <<>> /\ vlan_string = <<>> /\ gvs_done = FALSE
    /\ line = <<>> /\ relation = NoRelation /\ line_done = FALSE
    /\ call = NoCall /\ batch = NoBatch

\* One call _check_output(output, command).
CheckOutput ==
    /\ ~co_done
    /\ co_result' = _check_output(co_output, <<"display mac-address">>)
    /\ co_done' = TRUE
    /\ UNCHANGED <<envVars, pc, op, payload, lockVars, sessVars, retryVars, exc,
                   retval, result, connHist, bodyHist, events, co_output, ctxVars, studyVars>>

NextCheckOutput == CheckOutput

\* _check_output applied to every sampled response text.
SpecCheckOutput == InitCheckOutput /\ [][NextCheckOutput]_vars

\* ------------------------------------------------------ gen_vlan_string
MaxVlans == 3

T_to == <<" ", "t", "o", " ">>
V_10 == <<"1", "0">>
V_30 == <<"3", "0">>
V_4094 == <<"4", "0", "9", "4">>
V_10_20 == <<"1", "0", "-", "2", "0">>
V_5_7 == <<"5", "-", "7">>
VlanItems == {V_10, V_30, V_4094, V_10_20, V_5_7}

\* old in s, for a one-character old.
contains(s, old) == \E i \in 1..Len(s) : s[i] = old

\* s.replace(old, new) for a one-character old: every occurrence, in place.
RECURSIVE replace(_, _, _)
replace(s, old, new) ==
    IF s = <<>> THEN <<>>
    ELSE (IF Head(s) = old THEN new ELSE <<Head(s)>>) \o replace(Tail(s), old, new)

\* A loop body that leaves the item as it came.
vlan_item_unchanged(vlan) == vlan

\* The loop body of gen_vlan_string on one item:
\* if "-" in vlan: vlan = vlan.replace("-", " to ").
vlan_item(vlan) ==
    IF contains(vlan, "-") THEN replace(vlan, "-", T_to) ELSE vlan

\* gen_vlan_string(vlans): vlan_string += str(vlan) + " " for each item.
RECURSIVE gen_vlan_string(_)
gen_vlan_string(vs) ==
    IF vs = <<>> THEN <<>>
    ELSE vlan_item(Head(vs)) \o <<" ">> \o gen_vlan_string(Tail(vs))

\* All lists of at most n VLAN items.
RECURSIVE VlanLists(_)
VlanLists(n) ==
    IF n = 0 THEN {<<>>}
    ELSE LET S == VlanLists(n - 1)
         IN  S \cup {Append(x, v) : x \in {y \in S : Len(y) = n - 1}, v \in VlanItems}

InitGenVlanString ==
    /\ backend_url = FALSE
    /\ env = [SingleEnv EXCEPT !.callers = {}]
    /\ InitProcs
    /\ co_output = <<>> /\ co_result = NoResult /\ co_done = FALSE
    /\ vlans \in VlanLists(MaxVlans)
    /\ vlan_string = <<>> /\ gvs_done = FALSE
    /\ line = <<>> /\ relation = NoRelation /\ line_done = FALSE
    /\ call = NoCall /\ batch = NoBatch

\* One call gen_vlan_string(vlans).
GenVlanString ==
    /\ ~gvs_done
    /\ vlan_string' = gen_vlan_string(vlans)
    /\ gvs_done' = TRUE
    /\ UNCHANGED <<envVars, pc, op, payload, lockVars, sessVars, retryVars, exc,
                   retval, result, connHist, bodyHist, events, coVars, ctxVars,
                   vlans, line, relation, line_done, call, batch>>

NextGenVlanString == GenVlanString

\* gen_vlan_string applied to every sampled list of VLAN items.
SpecGenVlanString == InitGenVlanString /\ [][NextGenVlanString]_vars

\* ----------------------------------------------------- relation parsing
Whitespace == {" ", "\t", "\n"}

\* re.compile(r'\S+').findall(s) from position i on, cur being the run of
\* non-whitespace characters read so far.
RECURSIVE findall_from(_, _, _)
findall_from(s, i, cur) ==
    IF i > Len(s) THEN (IF cur = <<>> THEN <<>> ELSE <<cur>>)
    ELSE IF s[i] \in Whitespace
         THEN (IF cur = <<>> THEN <<>> ELSE <<cur>>) \o findall_from(s, i + 1, <<>>)
         ELSE findall_from(s, i + 1, Append(cur, s[i]))

\* pattern.findall(line) with pattern = re.compile(r'\S+').
pattern_findall(s) == findall_from(s, 1, <<>>)

\* s.split(sep) for a one-character sep: empty pieces are kept.
RECURSIVE split_from(_, _, _, _)
split_from(s, sep, i, cur) ==
    IF i > Len(s) THEN <<cur>>
    ELSE IF s[i] = sep
         THEN <<cur>> \o split_from(s, sep, i + 1, <<>>)
         ELSE split_from(s, sep, i + 1, Append(cur, s[i]))

split(s, sep) == split_from(s, sep, 1, <<>>)

\* s[a:b]: the characters at 0-based positions a .. b-1 that exist.
slice(s, a, b) == SubSeq(s, a + 1, IF b < Len(s) THEN b ELSE Len(s))

\* sep.join(parts).
RECURSIVE join(_, _)
join(sep, parts) ==
    IF parts = <<>> THEN <<>>
    ELSE IF Len(parts) = 1 THEN parts[1]
    ELSE parts[1] \o sep \o join(sep, Tail(parts))

\* A block rendered with its two pairs exchanged.
mac_pair_swapped(i) == slice(i, 2, 4) \o <<":">> \o slice(i, 0, 2)

\* i[0:2] + ":" + i[2:4] for one hyphen-separated block i.
mac_pair(i) == slice(i, 0, 2) \o <<":">> \o slice(i, 2, 4)

\* The loop body of get_relations on one line: data = pattern.findall(line);
\* mac = ":".join(i[0:2] + ":" + i[2:4] for i in data[0].split("-"));
\* {"mac": mac, "port": data[2]}.  A line of fewer than three tokens
\* raises IndexError.
parse_line(l) ==
    LET data == pattern_findall(l)
    IN  IF Len(data) < 3 THEN [exc |-> "IndexError", mac |-> <<>>, port |-> <<>>]
        ELSE LET blocks == split(data[1], "-")
             IN  [exc |-> "none",
                  mac |-> join(<<":">>, [k \in 1..Len(blocks) |-> mac_pair(blocks[k])]),
                  port |-> data[3]]

\* Sampled data lines of a "display mac-address" table.
MacBlocks == {<<"0", "0", "1", "1">>, <<"2", "2", "3", "3">>,
              <<"4", "4", "5", "5">>, <<"a", "0", "b", "f">>}
MacTokens == {b1 \o <<"-">> \o b2 \o <<"-">> \o b3 : b1, b2, b3 \in MacBlocks}
T_vlan100 == <<"1", "0", "0", "/", "-">>
T_GE1 == <<"G", "E", "1", "/", "0", "/", "1">>
T_EthTrunk1 == <<"E", "t", "h", "-", "T", "r", "u", "n", "k", "1">>
T_dynamic == <<"d", "y", "n", "a", "m", "i", "c">>
Gaps == {<<" ">>, <<" ", " ", " ">>, <<"\t">>}
DataLines ==
    {lead \o m \o g \o T_vlan100 \o g \o prt \o <<" ">> \o T_dynamic :
        lead \in {<<>>, <<" ">>}, m \in MacTokens, g \in Gaps,
        prt \in {T_GE1, T_EthTrunk1}}

InitParseLine ==
    /\ backend_url = FALSE
    /\ env = [SingleEnv EXCEPT !.callers = {}]
    /\ InitProcs
    /\ co_output = <<>> /\ co_result = NoResult /\ co_done = FALSE
    /\ vlans = <<>> /\ vlan_string = <<>> /\ gvs_done = FALSE
    /\ line \in DataLines
    /\ relation = NoRelation /\ line_done = FALSE
    /\ call = NoCall /\ batch = NoBatch

\* One pass of the parsing loop over a data line.
ParseLine ==
    /\ ~line_done
    /\ relation' = [mac |-> parse_line(line).mac, port |-> parse_line(line).port]
    /\ line_done' = TRUE
    /\ UNCHANGED <<envVars, pc, op, payload, lockVars, sessVars, retryVars, exc,
                   retval, result, connHist, bodyHist, events, coVars, ctxVars,
                   vlans, vlan_string, gvs_done, line, call, batch>>

NextParseLine == ParseLine

\* The parsing loop body applied to every sampled data line.
SpecParseLine == InitParseLine /\ [][NextParseLine]_vars

\* --------------------------------------------- set_vlan and unset_vlan
MaxPorts == 2

\* str(s) of a text kept as characters.
RECURSIVE Join(_)
Join(cs) == IF cs = <<>> THEN "" ELSE Head(cs) \o Join(Tail(cs))

\* _unset_vlan without the branch on current_link_type.
RECURSIVE _unset_vlan_all_alike(_)
_unset_vlan_all_alike(ports) ==
    IF ports = <<>> THEN <<>>
    ELSE <<"interface " \o Head(ports).port_name, "undo port link-type", "commit", "q">>
         \o _unset_vlan_all_alike(Tail(ports))

\* _unset_vlan(ports): one stanza per port, in port order.
RECURSIVE _unset_vlan(_)
_unset_vlan(ports) ==
    IF ports = <<>> THEN <<>>
    ELSE LET port == Head(ports)
         IN  (IF port.current_link_type = "trunk"
              THEN <<"interface " \o port.port_name, "undo port link-type", "commit", "q">>
              ELSE <<"interface " \o port.port_name, "undo port link-type",
                     "undo port default vlan", "commit", "q">>)
             \o _unset_vlan(Tail(ports))

\* The set stanzas with the commit written before the allow-pass command.
RECURSIVE set_vlan_cmd_commit_first(_)
set_vlan_cmd_commit_first(ports) ==
    IF ports = <<>> THEN <<>>
    ELSE LET port == Head(ports)
             vs == Join(gen_vlan_string(port.vlan_id))
         IN  (IF port.set_link_type = "trunk"
              THEN <<"interface " \o port.port_name, "port link-type trunk", "commit",
                     "port trunk allow-pass vlan " \o vs, "q">>
              ELSE <<"interface " \o port.port_name, "port link-type access",
                     "port default vlan  " \o vs, "commit", "q">>)
             \o set_vlan_cmd_commit_first(Tail(ports))

\* The loop of set_vlan that builds set_vlan_cmd, one stanza per port.
RECURSIVE set_vlan_cmd(_)
set_vlan_cmd(ports) ==
    IF ports = <<>> THEN <<>>
    ELSE LET port == Head(ports)
             vs == Join(gen_vlan_string(port.vlan_id))
         IN  (IF port.set_link_type = "trunk"
              THEN <<"interface " \o port.port_name, "port link-type trunk",
                     "port trunk allow-pass vlan " \o vs, "commit", "q">>
              ELSE <<"interface " \o port.port_name, "port link-type access",
                     "port default vlan  " \o vs, "commit", "q">>)
             \o set_vlan_cmd(Tail(ports))

\* set_vlan: commands = unset_vlan_cmd + set_vlan_cmd + ["q"].
set_vlan_commands(ports) == _unset_vlan(ports) \o set_vlan_cmd(ports) \o <<"q">>

\* unset_vlan: commands = cmds + ['q'].
unset_vlan_commands(ports) == _unset_vlan(ports) \o <<"q">>

\* Sampled ports: the k-th port of a request is GEk and is given the k-th
\* list of VLAN items; its current and target link types are any.
PortNames == <<"GE1", "GE2", "GE3">>
VlanIds == <<<<V_10>>, <<V_10_20, V_30>>, <<V_5_7, V_4094>>>>
LinkTypes == {"trunk", "access"}
PortsAt(k) ==
    {[port_name |-> PortNames[k], current_link_type |-> c, set_link_type |-> t,
      vlan_id |-> VlanIds[k]] : c \in LinkTypes, t \in LinkTypes}
\* All port lists of at most n ports.
RECURSIVE PortLists(_)
PortLists(n) ==
    IF n = 0 THEN {<<>>}
    ELSE LET S == PortLists(n - 1)
         IN  S \cup {Append(x, q) : x \in {y \in S : Len(y) = n - 1}, q \in PortsAt(n)}

\* ------------------------------------------ SwitchPlugin request handlers
MaxMacs == 2

\* The sampled lists of at most n MAC addresses: the first k of Macs.
MacLists(n) == {SubSeq(Macs, 1, k) : k \in 0..n}

\* A "display mac-address" table: seven heading lines, one data line, two
\* closing lines.
T_rule == <<"-">>
T_Total == <<"T", "o", "t", "a", "l">>
T_0011_2233_4455 == <<"0", "0", "1", "1", "-", "2", "2", "3", "3", "-",
                      "4", "4", "5", "5">>
TableLine == T_0011_2233_4455 \o <<" ">> \o T_vlan100 \o <<" ">> \o T_GE1
             \o <<" ">> \o T_dynamic
TableText ==
    join(<<"\n">>, <<T_rule, T_rule, T_rule, T_rule, T_rule, T_rule, T_rule,
                     TableLine, T_rule, T_Total>>)

\* One handler at a time; the device answers with an acceptance, an error
\* marker or a table.
PluginEnv ==
    [callers |-> {"p1"},
     durs |-> {LongAttemptDur},
     save_durs |-> {LongAttemptDur},
     plans |-> {[fails |-> 0, then |-> "ok"], [fails |-> 1, then |-> "ok"],
                AlwaysFails, [fails |-> 0, then |-> "fatal"]},
     errors |-> {"SSHException"},
     batches |-> {<<>>, <<"interface GE1", "commit">>},
     commands |-> {<<"display mac-address">>},
     responses |-> {T_ok, T_Error, TableText}]

\* The handler has not built its HuaweiSwitch yet.
InitPlugin ==
    /\ backend_url \in BOOLEAN
    /\ env = PluginEnv
    /\ pc = [p \in Procs |-> "new"]
    /\ locker = [p \in Procs |-> "none"]
    /\ coord = [p \in Procs |-> <<>>]
    /\ InitFields
    /\ InitStudy

\* HuaweiSwitch(device_cfg).__init__ and __enter__: with a backend configured
\* the coordinator is created and started.  The handlers always pass
\* device_type "huawei", a netmiko platform.
HuaweiSwitch_init(p) ==
    /\ p \in env.callers /\ pc[p] = "new"
    /\ locker' = [locker EXCEPT ![p] = get_coordinator(backend_url)]
    /\ coord' = [coord EXCEPT ![p] = IF backend_url THEN Append(@, "start") ELSE @]
    /\ pc' = [pc EXCEPT ![p] = "idle"]
    /\ UNCHANGED <<envVars, op, payload, lockVars, sessVars, retryVars, exc, retval,
                   result, connHist, bodyHist, events, coVars, req, gr, studyVars>>

\* set_vlan(ports): the batch is generated and handed to my_send_config_set.
set_vlan(p) ==
    /\ p \in env.callers /\ pc[p] = "idle"
    /\ \E ports \in PortLists(MaxPorts) :
          /\ req' = [req EXCEPT ![p] = [NoRequest EXCEPT !.name = "set_vlan",
                                                         !.ports = ports]]
          /\ payload' = [payload EXCEPT ![p] = set_vlan_commands(ports)]
    /\ op' = [op EXCEPT ![p] = "my_send_config_set"]
    /\ pc' = [pc EXCEPT ![p] = "acquire"]
    /\ UNCHANGED <<envVars, lockVars, sessVars, retryVars, exc, retval, result,
                   connHist, bodyHist, events, coVars, locker, coord, gr, studyVars>>

\* unset_vlan(ports): the batch is generated and handed to my_send_config_set.
unset_vlan(p) ==
    /\ p \in env.callers /\ pc[p] = "idle"
    /\ \E ports \in PortLists(MaxPorts) :
          /\ req' = [req EXCEPT ![p] = [NoRequest EXCEPT !.name = "unset_vlan",
                                                         !.ports = ports]]
          /\ payload' = [payload EXCEPT ![p] = unset_vlan_commands(ports)]
    /\ op' = [op EXCEPT ![p] = "my_send_config_set"]
    /\ pc' = [pc EXCEPT ![p] = "acquire"]
    /\ UNCHANGED <<envVars, lockVars, sessVars, retryVars, exc, retval, result,
                   connHist, bodyHist, events, coVars, locker, coord, gr, studyVars>>

\* Queries that repeat the VLAN query after every MAC query.
queries_vlan_each_time(r) ==
    IF r.special_vlan = ""
    THEN [k \in 1..Len(r.special_mac) |-> display_mac_address(r.special_mac[k])]
    ELSE [k \in 1..(2 * Len(r.special_mac) + 1) |->
             IF k % 2 = 0 THEN display_mac_address(r.special_mac[k \div 2])
             ELSE display_mac_address_vlan(r.special_vlan)]

\* The queries of get_relations in issue order: one per MAC address, then
\* the VLAN query when special_vlan is set.
queries(r) ==
    [k \in 1..Len(r.special_mac) |-> display_mac_address(r.special_mac[k])]
    \o (IF r.special_vlan # "" THEN <<display_mac_address_vlan(r.special_vlan)>>
        ELSE <<>>)

\* datas.split("\n")[7:-2].
data_lines(datas) ==
    LET ls == split(datas, "\n") IN SubSeq(ls, 8, Len(ls) - 2)

\* The parsing loop over one datas: the relations it appends, or the
\* IndexError of a line with fewer than three tokens.
parse_datas(datas) ==
    LET ls == data_lines(datas)
        rs == [k \in 1..Len(ls) |-> parse_line(ls[k])]
    IN  [exc |-> IF \E k \in 1..Len(ls) : rs[k].exc # "none" THEN "IndexError"
                 ELSE "none",
         relations |-> [k \in 1..Len(ls) |-> [mac |-> rs[k].mac, port |-> rs[k].port]]]

Count(seq, x) == Cardinality({i \in 1..Len(seq) : seq[i] = x})

\* get_relations calls self.my_send_command(command): a fresh call.
Call_my_send_command(p, command) ==
    /\ op' = [op EXCEPT ![p] = "my_send_command"]
    /\ payload' = [payload EXCEPT ![p] = <<command>>]
    /\ pc' = [pc EXCEPT ![p] = "acquire"]
    /\ exc' = [exc EXCEPT ![p] = NoExc]
    /\ retval' = [retval EXCEPT ![p] = None]
    /\ result' = [result EXCEPT ![p] = NoResult]
    /\ connects' = [connects EXCEPT ![p] = 0]
    /\ logged' = [logged EXCEPT ![p] = 0]
    /\ slept' = [slept EXCEPT ![p] = 0]
    /\ fail_at' = [fail_at EXCEPT ![p] = 0]
    /\ sent' = [sent EXCEPT ![p] = <<>>]
    /\ answers' = [answers EXCEPT ![p] = <<>>]
    /\ saves' = [saves EXCEPT ![p] = 0]
    /\ mode' = [mode EXCEPT ![p] = "none"]
    /\ calls' = [calls EXCEPT ![p] = <<>>]
    /\ events' = [events EXCEPT ![p] = <<>>]

\* get_relations(special_vlan, special_mac): entry, up to the first
\* my_send_command; with nothing to query it returns the empty list.
get_relations(p) ==
    /\ p \in env.callers /\ pc[p] = "idle"
    /\ \E macs \in MacLists(MaxMacs), v \in {"", Vlan} :
          LET r == [NoRequest EXCEPT !.name = "get_relations", !.special_mac = macs,
                                     !.special_vlan = v]
          IN  /\ req' = [req EXCEPT ![p] = r]
              /\ IF queries(r) = <<>>
                 THEN /\ pc' = [pc EXCEPT ![p] = "done"]
                      /\ result' = [result EXCEPT ![p] = [exc |-> NoExc, value |-> None]]
                      /\ UNCHANGED <<gr, op, payload, exc, retval, connHist, bodyHist,
                                     events>>
                 ELSE /\ gr' = [gr EXCEPT ![p].calling = TRUE]
                      /\ Call_my_send_command(p, queries(r)[1])
    /\ UNCHANGED <<envVars, lockVars, sessVars, retryVars, coVars, locker, coord,
                   studyVars>>

\* get_relations after a my_send_command: an exception of the call leaves
\* get_relations; otherwise datas, the value the call returned, is split
\* and parsed, the relations are appended, and the next query is issued or
\* the list is returned.
get_relations_parse(p) ==
    /\ pc[p] = "done" /\ gr[p].calling
    /\ LET r == result[p]
           qs == queries(req[p])
           i == gr[p].i + 1
           g1 == [gr[p] EXCEPT !.i = i,
                               !.opened = @ + Count(events[p], "open"),
                               !.acquired = @ + Count(events[p], "acquire"),
                               !.displayed = IF answers[p] # <<>>
                                             THEN Append(@, answers[p][1]) ELSE @]
           keep == UNCHANGED <<op, payload, pc, exc, retval, connHist, bodyHist, events>>
       IN  IF r.exc # NoExc
           THEN /\ gr' = [gr EXCEPT ![p] = [g1 EXCEPT !.calling = FALSE]]
                /\ keep /\ UNCHANGED result
           ELSE IF r.value.none
           THEN /\ gr' = [gr EXCEPT ![p] = [g1 EXCEPT !.calling = FALSE]]
                /\ result' = [result EXCEPT ![p] =
                                 [exc |-> Exc("AttributeError"), value |-> None]]
                /\ keep
           ELSE LET d == parse_datas(r.value.text)
                    g2 == [g1 EXCEPT !.parsed = Append(@, r.value.text),
                                     !.relations = @ \o d.relations]
                IN  IF d.exc # "none"
                    THEN /\ gr' = [gr EXCEPT ![p] = [g2 EXCEPT !.calling = FALSE,
                                                     !.relations = gr[p].relations]]
                         /\ result' = [result EXCEPT ![p] =
                                          [exc |-> Exc(d.exc), value |-> None]]
                         /\ keep
                    ELSE IF i = Len(qs)
                    THEN /\ gr' = [gr EXCEPT ![p] = [g2 EXCEPT !.calling = FALSE]]
                         /\ result' = [result EXCEPT ![p] =
                                          [exc |-> NoExc, value |-> None]]
                         /\ keep
                    ELSE /\ gr' = [gr EXCEPT ![p] = g2]
                         /\ Call_my_send_command(p, qs[i + 1])
    /\ UNCHANGED <<envVars, lockVars, sessVars, retryVars, coVars, locker, coord,
                   req, studyVars>>

\* What the handler does with the result of the client call: an exception
\* is wrapped in SwitchTaskError; the configuration handlers then test
\* `"successfully" in result`, a TypeError when result is None.
handler_outcome(r, res) ==
    IF res.exc # NoExc
    THEN [exc |-> [Exc("SwitchTaskError") EXCEPT !.cause = res.exc.kind],
          value |-> None]
    ELSE IF r.name # "get_relations" /\ res.value.none
    THEN [exc |-> Exc("TypeError"), value |-> None]
    ELSE res

\* An __exit__ that stops the coordinator only when the body did not raise.
HuaweiSwitch_exit_unless_raised(p) ==
    /\ pc[p] = "done" /\ ~gr[p].calling
    /\ LET stop == locker[p] = "started" /\ result[p].exc = NoExc
       IN  /\ locker' = [locker EXCEPT ![p] = IF stop THEN "stopped" ELSE @]
           /\ coord' = [coord EXCEPT ![p] = IF stop THEN Append(@, "stop") ELSE @]
    /\ result' = [result EXCEPT ![p] = handler_outcome(req[p], @)]
    /\ pc' = [pc EXCEPT ![p] = "exited"]
    /\ UNCHANGED <<envVars, op, payload, lockVars, sessVars, retryVars, exc, retval,
                   connHist, bodyHist, events, coVars, req, gr, studyVars>>

\* The handler's `with HuaweiSwitch(device_cfg) as client:` block ends, by
\* return or by exception: __exit__ stops the coordinator if there is one.
HuaweiSwitch_exit(p) ==
    /\ pc[p] = "done" /\ ~gr[p].calling
    /\ LET stop == locker[p] = "started"
       IN  /\ locker' = [locker EXCEPT ![p] = IF stop THEN "stopped" ELSE @]
           /\ coord' = [coord EXCEPT ![p] = IF stop THEN Append(@, "stop") ELSE @]
    /\ result' = [result EXCEPT ![p] = handler_outcome(req[p], @)]
    /\ pc' = [pc EXCEPT ![p] = "exited"]
    /\ UNCHANGED <<envVars, op, payload, lockVars, sessVars, retryVars, exc, retval,
                   connHist, bodyHist, events, coVars, req, gr, studyVars>>

PluginStep(p) ==
    \/ HuaweiSwitch_init(p)
    \/ set_vlan(p)
    \/ unset_vlan(p)
    \/ get_relations(p)
    \/ get_relations_parse(p)
    \/ HuaweiSwitch_exit(p)

NextPlugin ==
    \/ Next
    \/ \E p \in Procs : PluginStep(p)

\* One request handler of SwitchPlugin, from HuaweiSwitch(...) to the end
\* of its with block.
SpecPlugin == InitPlugin /\ [][NextPlugin]_vars

\* ------------------------------------------- generated command batches
\* What a generator does with the commands it built: it hands them to
\* my_send_config_set, raises before any batch exists, or returns a text
\* without sending.
Sends(commands) == [raised |-> "", returned |-> "", commands |-> commands]
Raises(kind) == [raised |-> kind, returned |-> "", commands |-> <<>>]
Returns(text) == [raised |-> "", returned |-> text, commands |-> <<>>]

min(a, b) == IF a <= b THEN a ELSE b

Digits == {"0", "1", "2", "3", "4", "5", "6", "7", "8", "9"}
\* int(s) of a text of decimal digits; ValueError is raised for any other.
is_decimal(s) == s # <<>> /\ \A i \in 1..Len(s) : s[i] \in Digits
RECURSIVE int(_)
int(s) ==
    IF s = <<>> THEN 0
    ELSE 10 * int(SubSeq(s, 1, Len(s) - 1))
         + (CHOOSE d \in 0..9 : ToString(d) = s[Len(s)])

\* s.split('-')[-1]: what follows the last '-' of s, s itself without one.
split_last(s) ==
    LET dashes == {i \in 1..Len(s) : s[i] = "-"}
    IN  IF dashes = {} THEN s
        ELSE SubSeq(s, (CHOOSE i \in dashes : \A j \in dashes : j <= i) + 1, Len(s))

\* "qos lr cir %s kbps cbs %s kbytes outbound" % (cir, cbs), as set_limit
\* and init_all_config compute it from the bandwidth.
qos_lr_outbound(bandwidth) ==
    LET cir == bandwidth * 1024
        cbs == min(524288, cir * 2)
    IN  "qos lr cir " \o ToString(cir) \o " kbps cbs " \o ToString(cbs)
        \o " kbytes outbound"

\* set_limit: the inner loop over info.outbound_ports.
RECURSIVE set_limit_outbound_ports(_, _)
set_limit_outbound_ports(info, ports) ==
    IF ports = <<>> THEN <<>>
    ELSE <<"interface " \o Head(ports), qos_lr_outbound(info.bandwidth), "commit", "q">>
         \o set_limit_outbound_ports(info, Tail(ports))

\* set_limit: inbound_cmd, one stanza per info.
RECURSIVE set_limit_inbound_cmd(_)
set_limit_inbound_cmd(limit_infos) ==
    IF limit_infos = <<>> THEN <<>>
    ELSE LET info == Head(limit_infos)
         IN  <<"interface " \o info.inbound_port,
               "qos car inbound " \o info.template_name, "commit", "q">>
             \o set_limit_inbound_cmd(Tail(limit_infos))

\* set_limit: outbound_cmd, one stanza per outbound port of each info.
RECURSIVE set_limit_outbound_cmd(_)
set_limit_outbound_cmd(limit_infos) ==
    IF limit_infos = <<>> THEN <<>>
    ELSE set_limit_outbound_ports(Head(limit_infos), Head(limit_infos).outbound_ports)
         \o set_limit_outbound_cmd(Tail(limit_infos))

\* set_limit(limit_infos).
set_limit(limit_infos) ==
    Sends(set_limit_inbound_cmd(limit_infos) \o set_limit_outbound_cmd(limit_infos)
          \o <<"q">>)

\* One stanza interface / command / commit / q per port.
RECURSIVE port_stanzas(_, _)
port_stanzas(ports, command) ==
    IF ports = <<>> THEN <<>>
    ELSE <<"interface " \o Head(ports), command, "commit", "q">>
         \o port_stanzas(Tail(ports), command)

\* unset_limit(inbound_ports, outbound_ports).
unset_limit(inbound_ports, outbound_ports) ==
    Sends(port_stanzas(inbound_ports, "undo qos car inbound")
          \o port_stanzas(outbound_ports, "undo qos lr outbound") \o <<"q">>)

\* create_limit_template: int(template.bandwidth * 1.62 * 1024), for a
\* whole number of Mbit/s.
template_cir(bandwidth) == (bandwidth * 162 * 1024) \div 100

RECURSIVE create_command(_)
create_command(templates) ==
    IF templates = <<>> THEN <<>>
    ELSE LET template == Head(templates)
         IN  <<"qos car " \o template.name \o " cir "
                 \o ToString(template_cir(template.bandwidth)) \o " kbps",
               "commit">>
             \o create_command(Tail(templates))

\* create_limit_template(templates).
create_limit_template(templates) == Sends(create_command(templates) \o <<"q">>)

RECURSIVE delete_command(_)
delete_command(templates) ==
    IF templates = <<>> THEN <<>>
    ELSE <<"undo qos car " \o Head(templates), "commit">>
         \o delete_command(Tail(templates))

\* delete_limit_template(templates).
delete_limit_template(templates) == Sends(delete_command(templates) \o <<"q">>)

\* open_port(ports).
open_port(ports) == Sends(port_stanzas(ports, "undo shutdown") \o <<"q">>)

\* shutdown_port(ports).
shutdown_port(ports) == Sends(port_stanzas(ports, "shutdown") \o <<"q">>)

\* init_dhclient_config: set_vlan_cmd, one stanza per port of the switch.
RECURSIVE dhclient_set_vlan_cmd(_, _)
dhclient_set_vlan_cmd(ports, vlan) ==
    IF ports = <<>> THEN <<>>
    ELSE <<"interface " \o Head(ports), "port link-type access",
           "port default vlan " \o Join(vlan), "q">>
         \o dhclient_set_vlan_cmd(Tail(ports), vlan)

\* init_dhclient_config(switch, clean_cmd_set).
init_dhclient_config(switch, clean_cmd_set) ==
    IF Len(switch.vlan_ids) # 1 THEN Raises("ConfigInternalVlanError")
    ELSE Sends(clean_cmd_set \o dhclient_set_vlan_cmd(switch.ports, switch.vlan_ids[1])
               \o <<"commit", "q">>)

\* A port left without leaving its interface view.
unset_shutdown_cmd_stays == <<"undo shutdown">>

\* _clean_all_config: unset_shutdown_cmd.
unset_shutdown_cmd == <<"undo shutdown", "q">>

\* _clean_all_config: all_ports_cmd, one stanza per port of the switch.
RECURSIVE clean_all_ports_cmd(_)
clean_all_ports_cmd(ports) ==
    IF ports = <<>> THEN <<>>
    ELSE <<"interface " \o Head(ports), "undo port link-type", "undo port default vlan">>
         \o <<"undo qos car inbound", "undo qos lr outbound">>
         \o unset_shutdown_cmd
         \o clean_all_ports_cmd(Tail(ports))

\* `if template_name:` of a text or None.
truthy(v) == ~v.none /\ v.text # <<>>

\* _clean_all_config(switch, template_name=None).
_clean_all_config(switch, template_name) ==
    clean_all_ports_cmd(switch.ports)
    \o (IF truthy(template_name)
        THEN <<"undo qos car " \o Join(template_name.text)>> ELSE <<>>)

\* clean_all_config(switch, template_name=None).
clean_all_config(switch, template_name) ==
    Sends(_clean_all_config(switch, template_name) \o <<"commit", "q">>)

\* init_all_config: all_ports_cmd, one stanza per port of the switch.
RECURSIVE init_all_ports_cmd(_, _, _, _)
init_all_ports_cmd(ports, vlans_text, template_name, bandwidth) ==
    IF ports = <<>> THEN <<>>
    ELSE <<"interface " \o Head(ports), "port link-type trunk",
           "port trunk allow-pass vlan " \o vlans_text>>
         \o <<"qos car inbound " \o template_name>>
         \o <<qos_lr_outbound(bandwidth)>>
         \o <<"undo shutdown", "q">>
         \o init_all_ports_cmd(Tail(ports), vlans_text, template_name, bandwidth)

\* init_all_config(switch, template_name, is_dhclient).
init_all_config(switch, template_name, is_dhclient) ==
    LET clean_cmd_set == _clean_all_config(switch, None)
    IN  IF is_dhclient THEN init_dhclient_config(switch, clean_cmd_set)
        ELSE IF ~is_decimal(split_last(template_name)) THEN Raises("ValueError")
        ELSE LET bandwidth == int(split_last(template_name))
                 cir == bandwidth * 1024
                 create_template_cmd ==
                     <<"qos car " \o Join(template_name) \o " cir " \o ToString(cir)
                         \o " kbps", "commit">>
                 init_cmd_set ==
                     create_template_cmd
                     \o init_all_ports_cmd(switch.ports,
                                           Join(gen_vlan_string(switch.vlan_ids)),
                                           Join(template_name), bandwidth)
                     \o <<"commit", "q">>
             IN  IF switch.vlan_ids # <<>>
                 THEN Sends(clean_cmd_set \o init_cmd_set)
                 ELSE Returns("vlan information is null")

\* Sampled arguments of the generators.
T_tpl_100 == <<"t", "p", "l", "-", "1", "0", "0">>
T_tpl_300 == <<"t", "p", "l", "-", "3", "0", "0">>
T_gold == <<"g", "o", "l", "d">>
\* The first k of the sampled port names, k up to n.
NameLists(n) == {SubSeq(PortNames, 1, k) : k \in 0..n}
\* The k-th limit info of a request has GEk as its inbound port.
LimitInfosAt(k) ==
    {[template_name |-> "tpl-100", inbound_port |-> PortNames[k],
      outbound_ports |-> o, bandwidth |-> b] : o \in NameLists(MaxPorts), b \in {100, 300}}
RECURSIVE LimitInfoLists(_)
LimitInfoLists(n) ==
    IF n = 0 THEN {<<>>}
    ELSE LET S == LimitInfoLists(n - 1)
         IN  S \cup {Append(x, q) : x \in {y \in S : Len(y) = n - 1}, q \in LimitInfosAt(n)}
Templates == <<[name |-> "tpl-100", bandwidth |-> 100],
               [name |-> "tpl-300", bandwidth |-> 300],
               [name |-> "tpl-1", bandwidth |-> 1]>>
TemplateNames == <<"tpl-100", "tpl-300", "tpl-1">>
Switches ==
    {[ports |-> ps, vlan_ids |-> vs] : ps \in NameLists(MaxPorts), vs \in VlanLists(MaxVlans)}

Calls ==
    {[NoCall EXCEPT !.method = m, !.ports = ps] :
        m \in {"set_vlan", "unset_vlan"}, ps \in PortLists(MaxPorts)}
    \cup {[NoCall EXCEPT !.method = "set_limit", !.limit_infos = ls] :
            ls \in LimitInfoLists(MaxPorts)}
    \cup {[NoCall EXCEPT !.method = "unset_limit", !.inbound_ports = i,
                         !.outbound_ports = o] :
            i \in NameLists(MaxPorts), o \in NameLists(MaxPorts)}
    \cup {[NoCall EXCEPT !.method = "create_limit_template",
                         !.templates = SubSeq(Templates, 1, k)] : k \in 0..MaxPorts}
    \cup {[NoCall EXCEPT !.method = "delete_limit_template",
                         !.template_names = SubSeq(TemplateNames, 1, k)] : k \in 0..MaxPorts}
    \cup {[NoCall EXCEPT !.method = m, !.port_names = ps] :
            m \in {"open_port", "shutdown_port"}, ps \in NameLists(MaxPorts)}
    \cup {[NoCall EXCEPT !.method = "init_dhclient_config", !.switch = sw] :
            sw \in Switches}
    \cup {[NoCall EXCEPT !.method = "init_all_config", !.switch = sw,
                         !.template_name = Str(t), !.is_dhclient = d] :
            sw \in Switches, t \in {T_tpl_100, T_tpl_300, T_gold}, d \in BOOLEAN}
    \cup {[NoCall EXCEPT !.method = "clean_all_config", !.switch = sw,
                         !.template_name = t] :
            sw \in Switches, t \in {None, Str(<<>>), Str(T_tpl_100)}}

InitCommandBatch ==
    /\ backend_url = FALSE
    /\ env = [SingleEnv EXCEPT !.callers = {}]
    /\ InitProcs
    /\ co_output = <<>> /\ co_result = NoResult /\ co_done = FALSE
    /\ vlans = <<>> /\ vlan_string = <<>> /\ gvs_done = FALSE
    /\ line = <<>> /\ relation = NoRelation /\ line_done = FALSE
    /\ call \in Calls
    /\ batch = NoBatch

\* The generator called runs on the arguments of the call: r is the batch
\* it hands to my_send_config_set, or what it raises or returns.
Generate(r) ==
    /\ ~batch.done
    /\ batch' = [done |-> TRUE, raised |-> r.raised, returned |-> r.returned,
                 commands |-> r.commands]
    /\ UNCHANGED <<envVars, pc, op, payload, lockVars, sessVars, retryVars, exc,
                   retval, result, connHist, bodyHist, events, coVars, ctxVars,
                   vlans, vlan_string, gvs_done, line, relation, line_done, call>>

Batch_set_vlan ==
    /\ call.method = "set_vlan"
    /\ Generate(Sends(set_vlan_commands(call.ports)))

Batch_unset_vlan ==
    /\ call.method = "unset_vlan"
    /\ Generate(Sends(unset_vlan_commands(call.ports)))

Batch_set_limit ==
    /\ call.method = "set_limit"
    /\ Generate(set_limit(call.limit_infos))

Batch_unset_limit ==
    /\ call.method = "unset_limit"
    /\ Generate(unset_limit(call.inbound_ports, call.outbound_ports))

Batch_create_limit_template ==
    /\ call.method = "create_limit_template"
    /\ Generate(create_limit_template(call.templates))

Batch_delete_limit_template ==
    /\ call.method = "delete_limit_template"
    /\ Generate(delete_limit_template(call.template_names))

Batch_open_port ==
    /\ call.method = "open_port"
    /\ Generate(open_port(call.port_names))

Batch_shutdown_port ==
    /\ call.method = "shutdown_port"
    /\ Generate(shutdown_port(call.port_names))

\* init_dhclient_config(switch), clean_cmd_set left at its default [].
Batch_init_dhclient_config ==
    /\ call.method = "init_dhclient_config"
    /\ Generate(init_dhclient_config(call.switch, <<>>))

Batch_init_all_config ==
    /\ call.method = "init_all_config"
    /\ Generate(init_all_config(call.switch, call.template_name.text, call.is_dhclient))

Batch_clean_all_config ==
    /\ call.method = "clean_all_config"
    /\ Generate(clean_all_config(call.switch, call.template_name))

NextCommandBatch ==
    \/ Batch_set_vlan
    \/ Batch_unset_vlan
    \/ Batch_set_limit
    \/ Batch_unset_limit
    \/ Batch_create_limit_template
    \/ Batch_delete_limit_template
    \/ Batch_open_port
    \/ Batch_shutdown_port
    \/ Batch_init_dhclient_config
    \/ Batch_init_all_config
    \/ Batch_clean_all_config

\* Every generator applied to every sampled argument.
SpecCommandBatch == InitCommandBatch /\ [][NextCommandBatch]_vars

\* =============================================================== claims
\* The configured pool size N of the device.
PoolSize == sw_internal_cfg.sw_max_connections
\* Lock slots of the device held at this instant, by anyone.
LocksOutstanding == Cardinality({p \in Procs : slot[p] # 0}) + Cardinality(foreign)
Has(seq, x) == \E i \in 1..Len(seq) : seq[i] = x
IsPrefix(a, b) == Len(a) <= Len(b) /\ SubSeq(b, 1, Len(a)) = a
\* p is connecting to the device or owns a live session.
Inside(p) == pc[p] \in {"connect", "session", "save", "close"}

\* C1: with a backend configured, at most N = pool_size slots of the device
\* are held in every reachable state, and a caller that tries to acquire
\* while N are held gets no slot in that step: it keeps waiting, or its
\* acquisition ends with LockTimeout.
C1_AtMostNSlotsHeld ==
    /\ [](backend_url => LocksOutstanding <= PoolSize)
    /\ [][\A p \in Procs :
            (backend_url /\ pc[p] = "acquire" /\ LocksOutstanding = PoolSize)
            => /\ slot'[p] = 0
               /\ \/ pc'[p] = "acquire"
                  \/ pc'[p] = "done" /\ exc'[p].kind = "LockTimeout"]_vars

\* N slots are held, one caller was refused with LockTimeout, one is waiting.
C1_Witness ==
    /\ backend_url
    /\ LocksOutstanding = PoolSize
    /\ \E p, q \in Procs :
          /\ pc[p] = "done" /\ exc[p].kind = "LockTimeout"
          /\ pc[q] = "acquire"

\* C2: an operation that obtained a lock slot and a live session closes the
\* session and then releases the slot on every exit path: its events are
\* always a prefix of acquire, open, close, release, and all four once it
\* has ended, whatever it returned or raised.
C2_CloseThenRelease ==
    \A p \in Procs :
        (Has(events[p], "acquire") /\ Has(events[p], "open"))
        => /\ IsPrefix(events[p], <<"acquire", "open", "close", "release">>)
           /\ pc[p] = "done" => events[p] = <<"acquire", "open", "close", "release">>
           /\ slot[p] = 0 => net_connect[p] = 0

\* An operation whose body raised DeviceRejected has closed and released.
C2_Witness ==
    \E p \in Procs :
        /\ pc[p] = "done"
        /\ exc[p].kind = "ConfigSwitchError"
        /\ events[p] = <<"acquire", "open", "close", "release">>

\* C3: with a backend configured, every connect attempt and the whole life
\* of the session lie inside one continuous hold of one slot: a caller that
\* is connecting or has a session holds a slot, the slot does not change
\* while it stays there, a session exists only there, the operations
\* connecting or in session on the device number at most pool_size, and no
\* two operations use the same session.
C3_SessionInsideLockHold ==
    /\ [](backend_url =>
            /\ \A p \in Procs : Inside(p) => slot[p] # 0
            /\ \A p \in Procs : net_connect[p] # 0 => Inside(p)
            /\ Cardinality({p \in Procs : Inside(p)}) + Cardinality(foreign) <= PoolSize
            /\ \A p, q \in Procs :
                  (p # q /\ net_connect[p] # 0) => net_connect[p] # net_connect[q])
    /\ [][\A p \in Procs :
            (backend_url /\ Inside(p) /\ Inside(p)') => slot'[p] = slot[p]]_vars

\* One caller is between two connect attempts while the other one has a
\* session, both inside their slots.
C3_Witness ==
    /\ backend_url
    /\ \E p, q \in Procs :
          /\ pc[p] = "connect" /\ attempt_number[p] >= 1 /\ slot[p] # 0
          /\ pc[q] = "session" /\ net_connect[q] # 0 /\ slot[q] # 0

\* C4: an operation whose lock acquisition failed made no connect attempt,
\* sent nothing, did not try to acquire again, and its caller received
\* LockTimeout.
C4_LockFailureSurfacesAsLockTimeout ==
    \A p \in Procs :
        (pc[p] = "done" /\ exc[p].kind = "LockTimeout")
        => /\ connects[p] = 0
           /\ sent[p] = <<>> /\ saves[p] = 0
           /\ events[p] = <<"lock_timeout">>
           /\ result[p].exc.kind = "LockTimeout"

\* The four markers and plain substring containment.
Markers == {T_Error, T_Wrong, T_Incomplete, T_Unrecognized}
ContainsMarker(s) ==
    \E m \in Markers : \E i \in 1..Len(s) :
        /\ i + Len(m) - 1 <= Len(s)
        /\ \A j \in 1..Len(m) : s[i + j - 1] = m[j]

\* C5: _check_output raises ConfigSwitchError exactly when the response
\* contains, case-sensitively, one of Error, Wrong, Incomplete,
\* Unrecognized; an empty or marker-free response raises nothing.
C5_RaisesIffMarker ==
    co_done =>
        /\ (co_result.exc.kind = "ConfigSwitchError") <=> ContainsMarker(co_output)
        /\ co_result.exc.kind \in {"none", "ConfigSwitchError"}
        /\ co_output = <<>> => co_result.exc = NoExc

\* A marker that straddles two chunks after a lower-case look-alike.
C5_Witness ==
    /\ co_done
    /\ co_output = T_error \o T_Err \o T_or
    /\ co_result.exc.kind = "ConfigSwitchError"

\* The send of my_send_config_set ran to its end without the session failing.
BatchSent(p) ==
    /\ op[p] = "my_send_config_set"
    /\ mode[p] = "config"
    /\ exc[p].kind # "NetMikoTimeoutException"

\* C6 as stated: when the device answers a command of the batch with an
\* error marker, no command after the first such command is sent.
C6_StopsAtFirstRejected ==
    \A p \in Procs :
        (BatchSent(p) /\ FirstRejected(answers[p]) # 0)
        => Len(sent[p]) <= FirstRejected(answers[p])

\* C6 amended: every command of the batch is written to the device, in
\* batch order, whatever the device answers; the output is validated once,
\* after the whole batch, and an error marker in any answer then makes the
\* operation fail with ConfigSwitchError (nothing is rolled back).
C6_WholeBatchSentThenChecked ==
    \A p \in Procs :
        BatchSent(p)
        => /\ sent[p] = payload[p]
           /\ Len(answers[p]) = Len(payload[p])
           /\ FirstRejected(answers[p]) # 0 => exc[p].kind = "ConfigSwitchError"
           /\ exc[p].kind \in {"none", "ConfigSwitchError"}

\* The first command of a batch of two was rejected and the second sent.
C6_Witness ==
    \E p \in Procs :
        /\ BatchSent(p)
        /\ FirstRejected(answers[p]) = 1
        /\ Len(sent[p]) = 2
        /\ exc[p].kind = "ConfigSwitchError"

\* C7 as stated: the ConfigSwitchError of a rejected batch names the single
\* command whose output held the marker, with the raw output.
C7_NamesTheFailingCommand ==
    \A p \in Procs :
        (BatchSent(p) /\ exc[p].kind = "ConfigSwitchError")
        => /\ FirstRejected(answers[p]) # 0
           /\ exc[p].command = <<payload[p][FirstRejected(answers[p])]>>
           /\ exc[p].error = Concat(answers[p])

\* C7 amended: the ConfigSwitchError of a rejected batch carries the whole
\* batch as its command and the raw output of the whole batch as its error.
C7_CarriesTheWholeBatch ==
    \A p \in Procs :
        (BatchSent(p) /\ exc[p].kind = "ConfigSwitchError")
        => /\ FirstRejected(answers[p]) # 0
           /\ exc[p].command = payload[p]
           /\ exc[p].error = Concat(answers[p])

\* The second command of a batch of two was rejected.
C7_Witness ==
    \E p \in Procs :
        /\ BatchSent(p)
        /\ exc[p].kind = "ConfigSwitchError"
        /\ Len(payload[p]) = 2
        /\ FirstRejected(answers[p]) = 2

FatalKinds == {"LockTimeout", "SwitchConnectionError", "ConfigSwitchError"}

\* C8: when a fatal failure (LockTimeout, SwitchConnectionError,
\* ConfigSwitchError) occurs inside my_send_config_set or my_send_command,
\* the immediate caller receives that same failure.
C8_FatalFailurePropagates ==
    \A p \in Procs :
        (/\ pc[p] = "done"
         /\ op[p] \in {"my_send_config_set", "my_send_command"}
         /\ exc[p].kind \in FatalKinds)
        => result[p].exc = exc[p]

\* C9: when every connect attempt raises a retryable error, the loop goes
\* on only while the failures are seen before connect_timeout, and ends at
\* the first failure seen at or after it with SwitchConnectionError carrying
\* the device address and the transport error; no session is yielded, the
\* body never runs, and the caller sees neither a transport error nor a
\* RetryError.
C9_ConnectExhaustion ==
    \A p \in Procs :
        (plan[p] = AlwaysFails /\ pc[p] \notin {"idle", "acquire"})
        => /\ pc[p] = "connect"
              => (attempt_number[p] > 0
                    => fail_at[p] < sw_internal_cfg.sw_ssh_connect_timeout)
           /\ pc[p] # "connect"
              => /\ pc[p] \in {"release", "done"}
                 /\ exc[p].kind = "SwitchConnectionError"
                 /\ exc[p].ip = DeviceIp
                 /\ exc[p].cause \in retry_exc_types
                 /\ fail_at[p] >= sw_internal_cfg.sw_ssh_connect_timeout
                 /\ net_connect[p] = 0 /\ ~Has(events[p], "open")
                 /\ sent[p] = <<>> /\ saves[p] = 0 /\ mode[p] = "none"
           /\ pc[p] = "done"
              => result[p].exc.kind \notin retry_exc_types \cup {"RetryError", "none"}

\* Seven instant attempts, ten seconds apart, all failed.
C9_Witness ==
    \E p \in Procs :
        /\ plan[p] = AlwaysFails
        /\ pc[p] = "done"
        /\ connects[p] = 7
        /\ result[p].exc.kind = "SwitchConnectionError"

ThreeThenOk == [fails |-> 3, then |-> "ok"]
\* The connect phase of p is over.
Connected(p) == pc[p] \notin {"idle", "acquire", "connect"}
YieldedAfterThreeRetries(p) ==
    /\ Has(events[p], "open")
    /\ connects[p] = 4
    /\ logged[p] = 3
    /\ slept[p] = 3 * sw_internal_cfg.sw_ssh_connect_interval

\* C10 as stated: three retryable failures then success, with
\* 3 x wait_interval < connect_timeout, yield the session after exactly 4
\* attempts, 3 logged retries and wait_interval between attempts.
C10_ThreeFailuresThenSession ==
    \A p \in Procs :
        (/\ plan[p] = ThreeThenOk /\ Connected(p)
         /\ 3 * sw_internal_cfg.sw_ssh_connect_interval
              < sw_internal_cfg.sw_ssh_connect_timeout)
        => YieldedAfterThreeRetries(p)

\* C10 amended: the same, provided each of the three failures is seen
\* before connect_timeout has elapsed since the first attempt began (the
\* time the attempts themselves take counts).
C10_ThreeTimelyFailuresThenSession ==
    \A p \in Procs :
        (/\ plan[p] = ThreeThenOk /\ Connected(p)
         /\ 3 * sw_internal_cfg.sw_ssh_connect_interval
              < sw_internal_cfg.sw_ssh_connect_timeout
         /\ logged[p] = 3
         /\ fail_at[p] < sw_internal_cfg.sw_ssh_connect_timeout)
        => YieldedAfterThreeRetries(p)

\* Three failures of which two took time, then the session.
C10_Witness ==
    \E p \in Procs :
        /\ plan[p] = ThreeThenOk
        /\ pc[p] = "session"
        /\ YieldedAfterThreeRetries(p)
        /\ fail_at[p] = 2 * sw_internal_cfg.sw_ssh_connect_interval + 2 * AttemptDur

\* The save step of p ran and is over.
SaveStepOver(p) == saves[p] > 0 /\ pc[p] \in {"close", "release", "done"}

\* C11: once the save step of an operation is over, however many of its
\* attempts failed and even when the 30 s stop condition ended it, no
\* exception is in flight and the operation returns normally to its caller.
C11_SaveExhaustionReturnsNormally ==
    \A p \in Procs :
        SaveStepOver(p)
        => /\ exc[p] = NoExc
           /\ pc[p] = "done" => result[p].exc = NoExc

\* C12: a save exchange with the device happens only inside an explicitly
\* invoked HuaweiSwitch.save, never inside my_send_command or
\* my_send_config_set.
C12_SaveOnlyWhenInvoked ==
    \A p \in Procs : saves[p] > 0 => op[p] = "save"

\* The position of the hyphen of a range item, 0 for a singleton.
HyphenAt(v) ==
    IF \E k \in 1..Len(v) : v[k] = "-" THEN CHOOSE k \in 1..Len(v) : v[k] = "-" ELSE 0
\* "a-b" as "a to b", a singleton as it is.
Rendered(v) ==
    IF HyphenAt(v) = 0 THEN v
    ELSE SubSeq(v, 1, HyphenAt(v) - 1) \o <<" ", "t", "o", " ">>
         \o SubSeq(v, HyphenAt(v) + 1, Len(v))

\* C16: gen_vlan_string returns the items in input order, none dropped,
\* merged or moved, each range "a-b" as "a to b" and each singleton
\* unchanged, every item followed by one space.
C16_ItemsRenderedInOrder ==
    gvs_done =>
        vlan_string = Concat([i \in 1..Len(vlans) |-> Rendered(vlans[i]) \o <<" ">>])

\* "10-20" then "30" gave "10 to 20 30 ".
C16_Witness ==
    /\ gvs_done
    /\ vlans = <<V_10_20, V_30>>
    /\ vlan_string = <<"1", "0", " ", "t", "o", " ", "2", "0", " ", "3", "0", " ">>

\* The k-th whitespace-separated token of text l.
TokenStarts(l) ==
    {i \in 1..Len(l) : l[i] \notin Whitespace /\ (i = 1 \/ l[i - 1] \in Whitespace)}
Token(l, k) ==
    LET b == CHOOSE i \in TokenStarts(l) :
                 Cardinality({j \in TokenStarts(l) : j < i}) = k - 1
        e == CHOOSE i \in b..Len(l) :
                 /\ \A j \in b..i : l[j] \notin Whitespace
                 /\ (i = Len(l) \/ l[i + 1] \in Whitespace)
    IN  SubSeq(l, b, e)
\* Text s without its characters c.
Without(s, c) == SelectSeq(s, LAMBDA x : x # c)

\* C17: a parsed data line gives a relation whose mac holds the 12 digits
\* of the line's first token in the same order, as 6 pairs separated by
\* colons, and whose port is the line's third token.
C17_MacRegroupedPortThird ==
    line_done =>
        /\ Len(relation.mac) = 17
        /\ \A i \in 1..17 : (relation.mac[i] = ":") <=> (i % 3 = 0)
        /\ Without(relation.mac, ":") = Without(Token(line, 1), "-")
        /\ relation.port = Token(line, 3)

\* "0011-2233-4455 ... GE1/0/1 ..." gave 00:11:22:33:44:55 on GE1/0/1.
C17_Witness ==
    /\ line_done
    /\ Token(line, 1) = <<"0", "0", "1", "1", "-", "2", "2", "3", "3", "-",
                          "4", "4", "5", "5">>
    /\ relation.mac = <<"0", "0", ":", "1", "1", ":", "2", "2", ":", "3", "3", ":",
                        "4", "4", ":", "5", "5">>
    /\ relation.port = T_GE1

\* C13: every text get_relations splits and parses is the device's response
\* to the "display mac-address ..." command of that query, and the
\* relations collected are those of the queries in issue order.
C13_ParsesTheDisplayResponse ==
    \A p \in Procs :
        /\ \A k \in 1..Len(gr[p].parsed) : gr[p].parsed[k] = gr[p].displayed[k]
        /\ gr[p].relations =
              Concat([k \in 1..Len(gr[p].parsed) |-> parse_datas(gr[p].parsed[k]).relations])

\* The computed vlan string of a port, as text.
VlanText(vlan_id) ==
    Join(Concat([i \in 1..Len(vlan_id) |-> Rendered(vlan_id[i]) \o <<" ">>]))
\* The unset-vlan command sequence of one port.
UnsetSeq(port) ==
    IF port.current_link_type = "trunk"
    THEN <<"interface " \o port.port_name, "undo port link-type", "commit", "q">>
    ELSE <<"interface " \o port.port_name, "undo port link-type",
           "undo port default vlan", "commit", "q">>
\* b holds the sequence q from position u on.
HoldsAt(b, u, q) == u + Len(q) - 1 <= Len(b) /\ SubSeq(b, u, u + Len(q) - 1) = q

\* C14: in the batch set_vlan hands to the pipeline, every port whose target
\* link type is trunk has its unset-vlan sequence first, later its
\* interface stanza holding "port trunk allow-pass vlan <vlan string>" and
\* then a commit before the stanza is left; the device is sent the commands
\* of the batch in the generated order.
C14_TrunkUnsetThenAllowPassThenCommit ==
    \A p \in Procs :
        req[p].name = "set_vlan" =>
            LET b == payload[p]
                ps == req[p].ports
            IN  /\ \A k \in 1..Len(ps) :
                      ps[k].set_link_type = "trunk" =>
                          \E u \in 1..Len(b) :
                            /\ HoldsAt(b, u, UnsetSeq(ps[k]))
                            /\ \E s \in (u + Len(UnsetSeq(ps[k])))..Len(b) :
                                 /\ b[s] = "interface " \o ps[k].port_name
                                 /\ \E a \in (s + 1)..Len(b) :
                                      /\ b[a] = "port trunk allow-pass vlan "
                                                \o VlanText(ps[k].vlan_id)
                                      /\ \E c \in (a + 1)..Len(b) :
                                           /\ b[c] = "commit"
                                           /\ \A j \in s..c : b[j] # "q"
                /\ IsPrefix(sent[p], b)
                /\ answers[p] # <<>> => sent[p] = b

\* set_vlan of two ports, the second one to trunk, was sent and returned.
C14_Witness ==
    \E p \in Procs :
        /\ req[p].name = "set_vlan" /\ Len(req[p].ports) = 2
        /\ req[p].ports[2].set_link_type = "trunk"
        /\ req[p].ports[2].vlan_id = <<V_10_20, V_30>>
        /\ pc[p] = "done" /\ result[p].exc = NoExc
        /\ Has(sent[p], "port trunk allow-pass vlan 10 to 20 30 ")

\* The stanza of the port named n in batch b: from its interface command to
\* the next q.
StanzaStart(b, n) == CHOOSE s \in 1..Len(b) : b[s] = "interface " \o n
StanzaEnd(b, n) ==
    CHOOSE e \in StanzaStart(b, n)..Len(b) :
        b[e] = "q" /\ \A j \in StanzaStart(b, n)..(e - 1) : b[j] # "q"

\* C15: in the batch of unset_vlan, the stanza of a port whose current link
\* type is not trunk ends with "undo port default vlan", "commit" and the
\* stanza exit; the stanza of a trunk port holds no "undo port default vlan".
C15_AccessStanzaEndsWithUndoDefaultVlan ==
    \A p \in Procs :
        req[p].name = "unset_vlan" =>
            LET b == payload[p]
                ps == req[p].ports
            IN  \A k \in 1..Len(ps) :
                    LET s == StanzaStart(b, ps[k].port_name)
                        e == StanzaEnd(b, ps[k].port_name)
                    IN  /\ \E i \in 1..Len(b) : b[i] = "interface " \o ps[k].port_name
                        /\ IF ps[k].current_link_type # "trunk"
                           THEN /\ e - 2 > s
                                /\ b[e - 2] = "undo port default vlan"
                                /\ b[e - 1] = "commit"
                           ELSE \A j \in s..e : b[j] # "undo port default vlan"

\* unset_vlan of an access port and a trunk port was sent to the device.
C15_Witness ==
    \E p \in Procs :
        /\ req[p].name = "unset_vlan" /\ Len(req[p].ports) = 2
        /\ req[p].ports[1].current_link_type = "access"
        /\ req[p].ports[2].current_link_type = "trunk"
        /\ pc[p] = "done"
        /\ sent[p] = <<"interface GE1", "undo port link-type", "undo port default vlan",
                       "commit", "q", "interface GE2", "undo port link-type",
                       "commit", "q", "q">>

\* Sessions established and lock slots acquired so far by the operation
\* that the handler of p requested.
SessionsOf(p) ==
    IF req[p].name = "get_relations"
    THEN gr[p].opened + (IF gr[p].calling THEN Count(events[p], "open") ELSE 0)
    ELSE Count(events[p], "open")
SlotsOf(p) ==
    IF req[p].name = "get_relations"
    THEN gr[p].acquired + (IF gr[p].calling THEN Count(events[p], "acquire") ELSE 0)
    ELSE Count(events[p], "acquire")
\* The number of queries a get_relations request asks for.
QueriesOf(r) == Len(r.special_mac) + (IF r.special_vlan # "" THEN 1 ELSE 0)

\* C18: during one requested operation at most one session is established
\* and at most one lock slot acquired, whatever its payload.
C18_OneSessionPerOperation ==
    \A p \in Procs : SessionsOf(p) <= 1 /\ SlotsOf(p) <= 1

\* C18, as the code has it: every call of my_send_config_set,
\* my_send_command or save establishes at most one session and acquires at
\* most one slot; set_vlan, unset_vlan and save make one such call whatever
\* the number of ports; get_relations makes one call per query, so at most
\* one session and one slot per MAC address plus one for the VLAN.
C18_OneSessionPerCall ==
    \A p \in Procs :
        /\ Count(events[p], "open") <= 1
        /\ Count(events[p], "acquire") <= 1
        /\ req[p].name # "get_relations" => SessionsOf(p) <= 1 /\ SlotsOf(p) <= 1
        /\ req[p].name = "get_relations" =>
              /\ SessionsOf(p) <= QueriesOf(req[p])
              /\ SlotsOf(p) <= QueriesOf(req[p])

\* get_relations of two MAC addresses and a VLAN returned after three
\* sessions under three slot acquisitions.
C18_Witness ==
    \E p \in Procs :
        /\ req[p].name = "get_relations" /\ QueriesOf(req[p]) = 3
        /\ pc[p] = "done" /\ ~gr[p].calling /\ result[p].exc = NoExc
        /\ SessionsOf(p) = 3 /\ SlotsOf(p) = 3

\* C19: with a backend configured the coordination client of a handler is
\* started once, when its HuaweiSwitch is created, stays open while the
\* body of the with block runs, and is stopped when the block ends, whatever
\* the body returned or raised: a handler that has ended has no
\* coordination connection open.
C19_CoordinatorClosedOnEveryExit ==
    \A p \in env.callers :
        /\ IsPrefix(coord[p], <<"start", "stop">>)
        /\ locker[p] = "started" <=> coord[p] = <<"start">>
        /\ (backend_url /\ pc[p] \notin {"new", "exited"}) => locker[p] = "started"
        /\ pc[p] = "exited" =>
              /\ locker[p] # "started"
              /\ backend_url => coord[p] = <<"start", "stop">>

\* A handler whose operation ended with LockTimeout has left its with
\* block: the coordinator was started and stopped.
C19_Witness ==
    \E p \in Procs :
        /\ pc[p] = "exited"
        /\ result[p].exc.kind = "SwitchTaskError" /\ result[p].exc.cause = "LockTimeout"
        /\ coord[p] = <<"start", "stop">>

SendCallOf(p) ==
    IF op[p] = "my_send_command" THEN "send_command" ELSE "send_config_set"

\* C21: before a send, send_command prepares the session in raw mode
\* (session_preparation) exactly when the command starts with "dis" and
\* enters configuration mode otherwise, send_config_set always enters
\* configuration mode, and the mode step is made before the call that
\* writes the command text: in every state the calls on the session are
\* none, the mode step alone, or the mode step followed by the send, and
\* text was written or answered only after both.
C21_ModeStepBeforeSend ==
    \A p \in Procs :
        /\ Len(calls[p]) <= 2
        /\ calls[p] # <<>> =>
              /\ calls[p][1] \in {"session_preparation", "config_mode"}
              /\ (calls[p][1] = "session_preparation") <=>
                    (/\ op[p] = "my_send_command"
                     /\ startswith_dis(payload[p][1]))
              /\ (mode[p] = "raw") <=> (calls[p][1] = "session_preparation")
        /\ Len(calls[p]) = 2 => calls[p][2] = SendCallOf(p)
        /\ (sent[p] # <<>> \/ answers[p] # <<>>) =>
              /\ Len(calls[p]) = 2
              /\ calls[p][2] \notin {"session_preparation", "config_mode"}

\* A display command went out after session_preparation.
C21_Witness ==
    \E p \in Procs :
        /\ op[p] = "my_send_command"
        /\ sent[p] = <<"display mac-address">>
        /\ calls[p] = <<"session_preparation", "send_command">>

\* ------------------------------------------------------------------ C22
\* C22: when every device exchange returns or raises in finite time, an
\* operation that acquired a lock slot eventually gives it back, and it does
\* so exactly once: a held slot leads to the operation ended with no slot,
\* an ended operation holds no slot and has released as often as it
\* acquired, and no operation releases twice.
C22_SlotEventuallyReleasedOnce ==
    /\ \A p \in Procs : (slot[p] # 0) ~> (pc[p] = "done" /\ slot[p] = 0)
    /\ [](\A p \in Procs :
            /\ Count(events[p], "release") <= 1
            /\ Count(events[p], "release") <= Count(events[p], "acquire")
            /\ pc[p] = "done" =>
                  /\ slot[p] = 0
                  /\ Count(events[p], "release") = Count(events[p], "acquire"))

\* The connect retry loop ran until its timeout, and the slot came back once.
C22_Witness ==
    \E p \in Procs :
        /\ pc[p] = "done"
        /\ plan[p] = AlwaysFails
        /\ attempt_number[p] >= 2
        /\ exc[p].kind = "SwitchConnectionError"
        /\ events[p] = <<"acquire", "release">>

\* ------------------------------------------------------------------ C23
\* floor(T / w) + 1 for the configured connect timeout T and interval w.
max_attempts ==
    (sw_internal_cfg.sw_ssh_connect_timeout
        \div sw_internal_cfg.sw_ssh_connect_interval) + 1
\* Every connect attempt p made so far took no time: the time since the
\* first attempt is the time slept between attempts.
InstantAttempts(p) == elapsed[p] = slept[p]
\* The connect loop of p ended with a failure.
ConnectFailed(p) ==
    pc[p] \in {"release", "done"} /\ exc[p].kind = "SwitchConnectionError"

\* C23: with the fixed wait w and the stop condition elapsed >= T evaluated
\* after each failed attempt, one _get_connection whose attempts take no
\* time makes at most floor(T / w) + 1 attempts (the attempt about to start
\* included), and no attempt starts once an attempt has failed at
\* elapsed >= T.
C23_AtMostSevenInstantAttempts ==
    /\ [](\A p \in Procs :
            /\ (pc[p] = "connect" /\ InstantAttempts(p))
                  => connects[p] + 1 <= max_attempts
            /\ (ConnectFailed(p) /\ InstantAttempts(p))
                  => connects[p] <= max_attempts
            /\ (pc[p] = "connect" /\ logged[p] > 0)
                  => fail_at[p] < sw_internal_cfg.sw_ssh_connect_timeout)
    /\ [][\A p \in Procs :
            (logged[p] > 0 /\ fail_at[p] >= sw_internal_cfg.sw_ssh_connect_timeout)
            => connects'[p] = connects[p]]_vars

\* The seventh instant attempt failed at T exactly and ended the loop.
C23_Witness ==
    \E p \in Procs :
        /\ ConnectFailed(p)
        /\ InstantAttempts(p)
        /\ connects[p] = max_attempts
        /\ logged[p] = max_attempts
        /\ fail_at[p] = sw_internal_cfg.sw_ssh_connect_timeout

\* ------------------------------------------------------------------ C24
\* The connect attempt of p that raised an error outside retry_exc_types.
FatalAttemptMade(p) ==
    exc[p].kind = "SwitchConnectionError" /\ exc[p].cause \notin retry_exc_types

\* C24: a connect attempt that raises an error outside the retryable set is
\* not retried: it is the last attempt of its _get_connection (the only one
\* when it is the first), the failure is SwitchConnectionError carrying the
\* device address and that error, nothing was logged or slept for it, no
\* session is yielded and nothing is sent, and the operation ends with its
\* lock slot released.
C24_FatalConnectErrorNotRetried ==
    /\ [](\A p \in Procs :
            FatalAttemptMade(p)
            => /\ plan[p].then = "fatal"
               /\ connects[p] = plan[p].fails + 1
               /\ logged[p] = plan[p].fails
               /\ slept[p] = plan[p].fails * sw_internal_cfg.sw_ssh_connect_interval
               /\ exc[p] = SwitchConnectionError(DeviceIp, "socket.error")
               /\ pc[p] \in {"release", "done"}
               /\ net_connect[p] = 0 /\ ~Has(events[p], "open")
               /\ sent[p] = <<>> /\ calls[p] = <<>> /\ saves[p] = 0
               /\ pc[p] = "done"
                     => /\ slot[p] = 0
                        /\ backend_url => events[p] = <<"acquire", "release">>)
    /\ [][\A p \in Procs :
            FatalAttemptMade(p)
            => /\ connects'[p] = connects[p]
               /\ net_connect'[p] = 0]_vars

\* The first attempt raised a socket error: one attempt, slot given back.
C24_Witness ==
    \E p \in Procs :
        /\ backend_url
        /\ plan[p] = [fails |-> 0, then |-> "fatal"]
        /\ FatalAttemptMade(p)
        /\ pc[p] = "done"
        /\ connects[p] = 1
        /\ events[p] = <<"acquire", "release">>

\* ------------------------------------------------------------------ C25
\* The commands that open an interface view, for the sampled port names.
InterfaceCommands == {"interface " \o PortNames[k] : k \in 1..Len(PortNames)}
\* A command that changes the configuration: not a view change, not commit.
Changes(c) == c \notin InterfaceCommands \cup {"q", "commit"}
\* The view depth after the first k commands of cmds, configuration mode
\* being depth 1.
Depth(cmds, k) ==
    1 + Cardinality({i \in 1..k : cmds[i] \in InterfaceCommands})
      - Cardinality({i \in 1..k : cmds[i] = "q"})

\* C25: every batch a generator hands to my_send_config_set keeps the view
\* depth at most 2, at least 1 before its last command, ends with the "q"
\* that brings the depth to 0, and has a "commit" after every command that
\* changes the configuration.
C25_BatchLeavesConfigModeCommitted ==
    (batch.done /\ batch.raised = "" /\ batch.returned = "")
    => LET cmds == batch.commands
           n == Len(cmds)
       IN  /\ n >= 1
           /\ \A k \in 0..n : Depth(cmds, k) <= 2
           /\ \A k \in 0..(n - 1) : Depth(cmds, k) >= 1
           /\ cmds[n] = "q"
           /\ Depth(cmds, n) = 0
           /\ \A k \in 1..n :
                 Changes(cmds[k]) => \E j \in (k + 1)..n : cmds[j] = "commit"

\* init_all_config built a batch for two ports: clean, template, ports,
\* commit, q.
C25_Witness ==
    /\ batch.done /\ batch.raised = "" /\ batch.returned = ""
    /\ call.method = "init_all_config"
    /\ ~call.is_dhclient
    /\ Len(call.switch.ports) = 2
    /\ Len(batch.commands) = 32
    /\ \E k \in 1..Len(batch.commands) : Depth(batch.commands, k) = 2

====
